---- MODULE Spec2Model ----
(***************************************************************************)
(* wikicat: the in-memory category graph index (wikicat/__init__.py) and   *)
(* the viewer's path search (wikicat/viewer/utils.py).                     *)
(*                                                                         *)
(* Encoding of Python values:                                              *)
(*   - an id is a number; a title is a sequence of pieces of text, one of  *)
(*     them " " where the title has a space;                               *)
(*   - an adjacency string ("12 40 7") is a sequence of tokens, each an id *)
(*     or the blank SP; str.split() and " ".join() are Split and Join;     *)
(*   - a dict is a function whose DOMAIN is its key set;                   *)
(*   - a Page object is a record [obj, id, title, namespace]; obj is the   *)
(*     object's identity, which Python's == compares when the class        *)
(*     defines no __eq__;                                                  *)
(*   - a returned value or a raised exception is a record tagged by kind.  *)
(***************************************************************************)
EXTENDS Integers, Sequences, FiniteSets, TLC

\* ---------------------------------------------------------------- bounds
\* Number of page ids in the snapshot.
NumIds == 4
\* Number of category-link rows the snapshot is generated from.
MaxRows == 3
\* Length of the id list handed to rank_page_ids, and largest max_pages.
MaxRankLen == 3

\* ------------------------------------------------------------- constants
ARTICLE == "0"
CATEGORY == "14"
\* The blank between two ids of an adjacency string.
SP == 0
\* The id of the page titled Hidden_categories.
HiddenId == 1

Ids == 1..NumIds
Title(i) == <<"title", ToString(i)>>
HiddenTitle == Title(HiddenId)
\* The snapshot's namespace of each id: one article, the rest categories.
NamespaceCode(i) == IF i = HiddenId + 1 THEN ARTICLE ELSE CATEGORY
CategoryIds == {i \in Ids : NamespaceCode(i) = CATEGORY}

None == [kind |-> "None"]
List(s) == [kind |-> "list", val |-> s]
Dict(d) == [kind |-> "dict", val |-> d]
Raise(e) == [kind |-> e]
RaiseMsg(e, message) == [kind |-> e, message |-> message]

\* hasattr(self, "degree_counts") is false
NoAttr == [kind |-> "unset"]
NoCall == [op |-> "none"]

EmptyDict == <<>>
DictSet(d, k, v) == [x \in (DOMAIN d) \cup {k} |-> IF x = k THEN v ELSE d[x]]
DictGet(d, k, default) == IF k \in DOMAIN d THEN d[k] ELSE default

VARIABLES
    \* CategoryGraph attributes
    id_to_title, id_to_namespace, title_to_id,
    children_to_parents, parents_to_children, hidden_categories,
    \* bfs_with_backlinks / extract_chain, as the viewer calls them in turn
    pc, article, target, queue, backlinks, allocated, result, chain,
    \* CategoryGraph.degree_counts (NoAttr until first set) and, as a set of
    \* at most one value, the include_hidden its content was computed with
    degree_counts, cache_hidden,
    \* the last query made on the index: its arguments and what it returned
    call,
    \* the callers that share the index: for each its call and its position in it
    workers,
    \* the viewer: the selected-nodes store, the node last clicked and the
    \* options and values of the two checklists
    selected_nodes, clicked_data, checklists

indexVars == <<id_to_title, id_to_namespace, title_to_id,
               children_to_parents, parents_to_children, hidden_categories>>
viewerVars == <<selected_nodes, clicked_data, checklists>>
searchVars == <<pc, article, target, queue, backlinks, allocated, result, chain>>
pathVars == <<pc, article, target, queue, backlinks, allocated, result, chain,
              workers, viewerVars>>
queryVars == <<degree_counts, cache_hidden, call>>
vars == <<indexVars, pathVars, queryVars>>

\* ------------------------------------------------------ string encoding
RECURSIVE Join(_)
Join(ids) ==
    IF Len(ids) = 0 THEN <<>>
    ELSE IF Len(ids) = 1 THEN ids
    ELSE <<Head(ids), SP>> \o Join(Tail(ids))

Split(str) == SelectSeq(str, LAMBDA c : c # SP)

\* An adjacency value that is a Python list of ids and not a str: the ids
\* behind the mark LIST, which no str holds.
LIST == 0 - 1
ListOfIds(ids) == <<LIST>> \o ids
IsStr(value) == value = <<>> \/ value[1] # LIST

\* value.split(): a list has no method split.
split(value) ==
    IF IsStr(value) THEN List(Split(value)) ELSE Raise("AttributeError")

\* ------------------------------------------------- snapshot generation
Rows == UNION {[1..n -> Ids \X CategoryIds] : n \in 0..MaxRows}

Column(rows, k) == [i \in 1..Len(rows) |-> rows[i][k]]

\* df.groupby(key)[value].apply(encode_data).to_dict()
GroupBy(rows, key, value) ==
    [g \in {rows[i][key] : i \in 1..Len(rows)} |->
        Join(Column(SelectSeq(rows, LAMBDA r : r[key] = g), value))]

\* generate_graph for pages titled by page_title; no two pages of one
\* namespace have the same title.
generate_graph_titled(rows, page_title) ==
    [id_to_title |-> page_title,
     id_to_namespace |-> [i \in Ids |-> NamespaceCode(i)],
     title_to_id |->
        [ns \in {ARTICLE, CATEGORY} |->
            [t \in {page_title[i] : i \in {j \in Ids : NamespaceCode(j) = ns}} |->
                CHOOSE i \in Ids : NamespaceCode(i) = ns /\ page_title[i] = t]],
     children_to_parents |-> GroupBy(rows, 1, 2),
     parents_to_children |-> GroupBy(rows, 2, 1)]

\* Every page under a title of its own.
OwnTitles == [i \in Ids |-> Title(i)]

generate_graph(rows) == generate_graph_titled(rows, OwnTitles)

\* A snapshot in which Hidden_categories is listed with no member.
WithEmptyHidden(graph_json) ==
    IF HiddenId \in DOMAIN graph_json.parents_to_children THEN graph_json
    ELSE [graph_json EXCEPT !.parents_to_children = DictSet(@, HiddenId, <<>>)]

Range(s) == {s[i] : i \in 1..Len(s)}

\* CategoryGraph.__init__, on the snapshot generated from one of rowsets
\* with the pages titled by one of titlings
InitIndexTitled(rowsets, titlings) ==
    \E rows \in rowsets, page_title \in titlings :
        LET graph_json == WithEmptyHidden(generate_graph_titled(rows, page_title))
            hidden_id == graph_json.title_to_id[CATEGORY][HiddenTitle]
        IN  /\ id_to_title = graph_json.id_to_title
            /\ id_to_namespace = graph_json.id_to_namespace
            /\ title_to_id = graph_json.title_to_id
            /\ children_to_parents = graph_json.children_to_parents
            /\ parents_to_children = graph_json.parents_to_children
            /\ hidden_categories = Range(Split(graph_json.parents_to_children[hidden_id]))

InitIndexFrom(rowsets) == InitIndexTitled(rowsets, {OwnTitles})

InitIndex == InitIndexFrom(Rows)

\* ------------------------------------------------------------ the index
ACCEPTED_NAMESPACES == {"article", "category"}

_code_to_namespace(code) ==
    IF code = ARTICLE THEN "article"
    ELSE IF code = CATEGORY THEN "category"
    ELSE IF code \in ACCEPTED_NAMESPACES THEN code
    ELSE "ValueError"

\* standardize: every space becomes an underscore (the titles of the model
\* are in Unicode normal form already).
standardize(title) ==
    [k \in 1..Len(title) |-> IF title[k] = " " THEN "_" ELSE title[k]]

\* Page.__init__: obj is the identity of the new object.
Page(obj, id, title, namespace) ==
    IF _code_to_namespace(namespace) \notin ACCEPTED_NAMESPACES
    THEN RaiseMsg("ValueError", "Invalid code")
    ELSE [obj |-> obj, id |-> id, title |-> standardize(title),
          namespace |-> _code_to_namespace(namespace)]

\* Page defines no __eq__: == on two pages is object identity.
PageEq(p, q) == p.obj = q.obj

\* remove_hidden_ids with the membership test inverted.
remove_hidden_ids_inverted(ids) == SelectSeq(ids, LAMBDA id_ : id_ \in hidden_categories)

remove_hidden_ids(ids) == SelectSeq(ids, LAMBDA id_ : id_ \notin hidden_categories)

\* get_page_from_id, for the object it allocates at address obj
get_page_from_id(obj, id) ==
    IF id \notin DOMAIN id_to_title THEN Raise("ValueError")
    ELSE IF id \notin DOMAIN id_to_namespace THEN Raise("ValueError")
    ELSE Page(obj, id, id_to_title[id], id_to_namespace[id])

\* parent_ids reading the map of get_children.
parent_ids_of_other_map(page_id, include_hidden) ==
    LET child_ids == Split(DictGet(parents_to_children, page_id, <<>>))
    IN  IF ~include_hidden THEN remove_hidden_ids(child_ids) ELSE child_ids

\* The ids get_parents resolves for page_id (lines 593-596).
parent_ids(page_id, include_hidden) ==
    LET child_ids == Split(DictGet(children_to_parents, page_id, <<>>))
    IN  IF ~include_hidden THEN remove_hidden_ids(child_ids) ELSE child_ids

\* ---------------------------------------------------------- path search
\* The for loop of bfs_with_backlinks over parents[i..], each parent a new
\* Page object allocated at base + its position.
\* bfs_visit that enqueues a parent whether or not it has a backlink.
RECURSIVE bfs_visit_enqueue_all(_, _, _, _, _, _)
bfs_visit_enqueue_all(parents, i, page, base, bl, q) ==
    IF i > Len(parents) THEN [backlinks |-> bl, queue |-> q]
    ELSE LET parent == get_page_from_id(base + i, parents[i])
         IN  bfs_visit_enqueue_all(parents, i + 1, page, base,
                IF parent.id \notin DOMAIN bl THEN DictSet(bl, parent.id, page.id) ELSE bl,
                Append(q, parent))

\* bfs_visit in which a later discovery overwrites the backlink.
RECURSIVE bfs_visit_overwrite(_, _, _, _, _, _)
bfs_visit_overwrite(parents, i, page, base, bl, q) ==
    IF i > Len(parents) THEN [backlinks |-> bl, queue |-> q]
    ELSE LET parent == get_page_from_id(base + i, parents[i])
         IN  bfs_visit_overwrite(parents, i + 1, page, base,
                DictSet(bl, parent.id, page.id),
                IF parent.id \notin DOMAIN bl THEN Append(q, parent) ELSE q)

RECURSIVE bfs_visit(_, _, _, _, _, _)
bfs_visit(parents, i, page, base, bl, q) ==
    IF i > Len(parents) THEN [backlinks |-> bl, queue |-> q]
    ELSE LET parent == get_page_from_id(base + i, parents[i])
         IN  IF parent.id \notin DOMAIN bl
             THEN bfs_visit(parents, i + 1, page, base,
                            DictSet(bl, parent.id, page.id), Append(q, parent))
             ELSE bfs_visit(parents, i + 1, page, base, bl, q)

\* extract_loop that also appends the id it stops at.
RECURSIVE extract_loop_with_source(_, _, _, _)
extract_loop_with_source(bl, node, article_id, acc) ==
    IF node = article_id THEN List(Append(acc, node))
    ELSE IF node \notin DOMAIN bl THEN Raise("KeyError")
    ELSE IF Len(acc) > Cardinality(DOMAIN bl) THEN Raise("diverges")
    ELSE extract_loop_with_source(bl, bl[node], article_id, Append(acc, node))

RECURSIVE extract_loop(_, _, _, _)
extract_loop(bl, node, article_id, acc) ==
    IF node = article_id THEN List(acc)
    ELSE IF node \notin DOMAIN bl THEN Raise("KeyError")
    ELSE IF Len(acc) > Cardinality(DOMAIN bl) THEN Raise("diverges")
    ELSE extract_loop(bl, bl[node], article_id, Append(acc, node))

extract_chain(bl, art, tgt) ==
    IF bl = None THEN List(<<>>)
    ELSE extract_loop(bl.val, tgt.id, art.id, <<>>)

\* No search under way, no degree cache, no query made yet, no second caller
\* and no viewer.
InitIdle ==
    /\ workers = <<>>
    /\ selected_nodes = None
    /\ clicked_data = None
    /\ checklists = None
    /\ pc = "idle"
    /\ article = None
    /\ target = None
    /\ queue = <<>>
    /\ backlinks = EmptyDict
    /\ allocated = 0
    /\ result = None
    /\ chain = None
    /\ degree_counts = NoAttr
    /\ cache_hidden = {}
    /\ call = NoCall

InitPath == InitIndex /\ InitIdle

\* The caller resolves the two pages (get_page_from_id) and calls
\* bfs_with_backlinks(cg, article, target); same: target is the very object
\* passed as article.
BfsStart ==
    /\ pc = "idle"
    /\ \E s \in DOMAIN id_to_title, t \in DOMAIN id_to_title, same \in BOOLEAN :
        /\ same => s = t
        /\ article' = get_page_from_id(1, s)
        /\ target' = IF same THEN article' ELSE get_page_from_id(2, t)
        /\ queue' = <<article'>>
    /\ allocated' = 2
    /\ backlinks' = EmptyDict
    /\ result' = None
    /\ chain' = None
    /\ pc' = "bfs"
    /\ UNCHANGED <<indexVars, queryVars, workers, viewerVars>>

\* One iteration of the while loop that dequeues the target.
BfsFound ==
    /\ pc = "bfs"
    /\ queue # <<>>
    /\ PageEq(Head(queue), target)
    /\ result' = Dict(backlinks)
    /\ queue' = Tail(queue)
    /\ pc' = "returned"
    /\ UNCHANGED <<indexVars, queryVars, workers, viewerVars, article, target, backlinks, allocated, chain>>

\* One iteration of the while loop that dequeues another page.
BfsExpand ==
    /\ pc = "bfs"
    /\ queue # <<>>
    /\ ~PageEq(Head(queue), target)
    /\ LET page == Head(queue)
           parents == parent_ids(page.id, FALSE)
           out == bfs_visit(parents, 1, page, allocated, backlinks, Tail(queue))
       IN  /\ backlinks' = out.backlinks
           /\ queue' = out.queue
           /\ allocated' = allocated + Len(parents)
    /\ UNCHANGED <<indexVars, queryVars, workers, viewerVars, pc, article, target, result, chain>>

\* BfsNoPath that returns the map built so far.
BfsNoPath_ReturnsMap ==
    /\ pc = "bfs"
    /\ queue = <<>>
    /\ result' = Dict(backlinks)
    /\ pc' = "returned"
    /\ UNCHANGED <<indexVars, queryVars, workers, viewerVars, article, target, queue, backlinks, allocated, chain>>

\* The queue is empty: return None.
BfsNoPath ==
    /\ pc = "bfs"
    /\ queue = <<>>
    /\ result' = None
    /\ pc' = "returned"
    /\ UNCHANGED <<indexVars, queryVars, workers, viewerVars, article, target, queue, backlinks, allocated, chain>>

\* chain = extract_chain(backlinks, article, target)
ExtractChain ==
    /\ pc = "returned"
    /\ chain' = extract_chain(result, article, target)
    /\ pc' = "done"
    /\ UNCHANGED <<indexVars, queryVars, workers, viewerVars, article, target, queue, backlinks, allocated, result>>

NextPath == BfsStart \/ BfsFound \/ BfsExpand \/ BfsNoPath \/ ExtractChain

SpecPath == InitPath /\ [][NextPath]_vars

\* The search runs in one thread that nothing suspends: a step that can be
\* taken is taken.
SpecPathFair == InitPath /\ [][NextPath]_vars /\ WF_vars(NextPath)

\* ------------------------------------------------------- degree counts
\* The ids get_children resolves for page_id (lines 522-525).
child_ids(page_id, include_hidden) ==
    LET parent_ids_ == Split(DictGet(parents_to_children, page_id, <<>>))
    IN  IF ~include_hidden THEN remove_hidden_ids(parent_ids_) ELSE parent_ids_

\* The degree loop that drops no hidden category, whatever include_hidden.
compute_degree_counts_unfiltered(include_hidden) ==
    [id_ \in DOMAIN id_to_title |->
        Len(Split(DictGet(children_to_parents, id_, <<>>)))
        + Len(Split(DictGet(parents_to_children, id_, <<>>)))]

\* The loop of get_degree_counts (lines 632-643).
compute_degree_counts(include_hidden) ==
    [id_ \in DOMAIN id_to_title |->
        LET parents == Split(DictGet(children_to_parents, id_, <<>>))
            children == Split(DictGet(parents_to_children, id_, <<>>))
            num_parents == Len(IF ~include_hidden THEN remove_hidden_ids(parents) ELSE parents)
            num_children == Len(IF ~include_hidden THEN remove_hidden_ids(children) ELSE children)
        IN  num_parents + num_children]

\* A cache test that also asks for the include_hidden the cache was computed with.
cache_hit_same_setting(include_hidden, use_cache) ==
    use_cache /\ degree_counts # NoAttr /\ cache_hidden = {include_hidden}

\* use_cache and hasattr(self, "degree_counts") (line 626)
cache_hit(include_hidden, use_cache) ==
    use_cache /\ degree_counts # NoAttr

\* get_degree_counts that computes and stores on every call.
degree_counts_after_recompute(include_hidden, use_cache) ==
    Dict(compute_degree_counts(include_hidden))

\* The value of self.degree_counts after get_degree_counts(include_hidden, use_cache).
degree_counts_after(include_hidden, use_cache) ==
    IF cache_hit(include_hidden, use_cache) THEN degree_counts
    ELSE Dict(compute_degree_counts(include_hidden))

GetDegreeCounts ==
    \E include_hidden \in BOOLEAN, use_cache \in BOOLEAN :
        /\ degree_counts' = degree_counts_after(include_hidden, use_cache)
        /\ cache_hidden' = IF use_cache /\ degree_counts # NoAttr THEN cache_hidden
                           ELSE {include_hidden}
        /\ call' = [op |-> "get_degree_counts", include_hidden |-> include_hidden,
                    use_cache |-> use_cache,
                    had_cache |-> degree_counts # NoAttr,
                    was_hidden |-> cache_hidden,
                    ret |-> degree_counts']
        /\ UNCHANGED <<indexVars, pathVars>>

InitDegree == InitIndex /\ InitIdle

SpecDegree == InitDegree /\ [][GetDegreeCounts]_vars

\* ------------------------------------------------------------- ranking
Min(a, b) == IF a < b THEN a ELSE b

\* __autoconvert_list_of_ids; the Page objects are allocated from base + 1.
autoconvert_list_of_ids(ids, return_as, base) ==
    IF return_as = "title"
    THEN IF \E i \in 1..Len(ids) : ids[i] \notin DOMAIN id_to_title
         THEN Raise("KeyError")
         ELSE List([i \in 1..Len(ids) |-> id_to_title[ids[i]]])
    ELSE IF return_as = "id" THEN List(ids)
    ELSE IF return_as = "page"
    THEN IF \E i \in 1..Len(ids) :
                ids[i] \notin DOMAIN id_to_title \/ ids[i] \notin DOMAIN id_to_namespace
         THEN Raise("ValueError")
         ELSE List([i \in 1..Len(ids) |-> get_page_from_id(base + i, ids[i])])
    ELSE Raise("ValueError")

\* x sorts strictly before y.
sorts_before(counts, reverse, x, y) ==
    IF reverse THEN counts[x] > counts[y] ELSE counts[x] < counts[y]

\* insert_stable that places x ahead of the elements it ties with.
RECURSIVE insert_before_equal(_, _, _, _)
insert_before_equal(acc, x, counts, reverse) ==
    IF Len(acc) = 0 THEN <<x>>
    ELSE IF ~sorts_before(counts, reverse, Head(acc), x) THEN <<x>> \o acc
    ELSE <<Head(acc)>> \o insert_before_equal(Tail(acc), x, counts, reverse)

\* Place x in the ordered list acc, behind every element it does not sort
\* strictly before.
RECURSIVE insert_stable(_, _, _, _)
insert_stable(acc, x, counts, reverse) ==
    IF Len(acc) = 0 THEN <<x>>
    ELSE IF sorts_before(counts, reverse, x, Head(acc)) THEN <<x>> \o acc
    ELSE <<Head(acc)>> \o insert_stable(Tail(acc), x, counts, reverse)

RECURSIVE sort_from(_, _, _, _, _)
sort_from(ids, i, acc, counts, reverse) ==
    IF i > Len(ids) THEN acc
    ELSE sort_from(ids, i + 1, insert_stable(acc, ids[i], counts, reverse), counts, reverse)

Reverse(s) == [i \in 1..Len(s) |-> s[Len(s) + 1 - i]]

\* A descending sort made by reversing the ascending one.
sorted_then_reversed(ids, counts, reverse) ==
    IF reverse THEN Reverse(sort_from(ids, 1, <<>>, counts, FALSE))
    ELSE sort_from(ids, 1, <<>>, counts, FALSE)

\* sorted(ids, key=lambda page_id: counts[page_id], reverse=reverse): stable
\* in both directions; KeyError for an id counts does not hold.
sorted(ids, counts, reverse) ==
    sort_from(ids, 1, <<>>, counts, reverse)

\* ranked[:max_pages], max_pages given as <<m>> and None as <<>>
truncate(ranked, max_pages) ==
    IF max_pages = <<>> THEN ranked
    ELSE SubSeq(ranked, 1, Min(max_pages[1], Len(ranked)))

\* What rank_page_ids returns, counts being get_degree_counts().
rank_page_ids(ids, mode, ascending, max_pages, return_as, counts) ==
    IF mode # "degree" THEN Raise("ValueError")
    ELSE IF \E i \in 1..Len(ids) : ids[i] \notin DOMAIN counts THEN Raise("KeyError")
    ELSE autoconvert_list_of_ids(
            truncate(sorted(ids, counts, ~ascending), max_pages), return_as, 0)

RankIds == UNION {[1..n -> Ids] : n \in 0..MaxRankLen}
MaxPages == {<<>>} \cup {<<m>> : m \in 0..MaxRankLen}

\* rank_page_ids that recomputes the degree counts on every call.
RankCall_Recomputes(ids, mode, ascending, max_pages, fresh) ==
    /\ degree_counts' = IF mode # "degree" THEN degree_counts
                        ELSE degree_counts_after(FALSE, FALSE)
    /\ cache_hidden' = IF mode # "degree" THEN cache_hidden ELSE {FALSE}
    /\ call' = [op |-> "rank_page_ids", ids |-> ids, mode |-> mode,
                ascending |-> ascending, max_pages |-> max_pages,
                had_cache |-> degree_counts # NoAttr,
                fresh |-> fresh,
                reranks |-> /\ call.op = "rank_page_ids"
                            /\ call.mode = "degree"
                            /\ ~call.ascending
                            /\ call.max_pages = <<>>
                            /\ call.ret = List(ids),
                ret |-> IF mode # "degree" THEN Raise("ValueError")
                        ELSE rank_page_ids(ids, mode, ascending, max_pages, "id",
                                           degree_counts'.val)]
    /\ UNCHANGED <<indexVars, pathVars>>

\* The body of rank_page_ids for one choice of arguments.
RankCall(ids, mode, ascending, max_pages, fresh) ==
    /\ degree_counts' = IF mode # "degree" THEN degree_counts
                        ELSE degree_counts_after(FALSE, TRUE)
    /\ cache_hidden' = IF mode # "degree" \/ degree_counts # NoAttr THEN cache_hidden
                       ELSE {FALSE}
    /\ call' = [op |-> "rank_page_ids", ids |-> ids, mode |-> mode,
                ascending |-> ascending, max_pages |-> max_pages,
                had_cache |-> degree_counts # NoAttr,
                fresh |-> fresh,
                reranks |-> /\ call.op = "rank_page_ids"
                            /\ call.mode = "degree"
                            /\ ~call.ascending
                            /\ call.max_pages = <<>>
                            /\ call.ret = List(ids),
                ret |-> IF mode # "degree" THEN Raise("ValueError")
                        ELSE rank_page_ids(ids, mode, ascending, max_pages, "id",
                                           degree_counts'.val)]
    /\ UNCHANGED <<indexVars, pathVars>>

\* rank_page_ids on a list of the caller's.
RankPageIds ==
    /\ call.op # "rank_page_ids"
    /\ \E ids \in RankIds, ascending \in BOOLEAN, max_pages \in MaxPages :
        RankCall(ids, "degree", ascending, max_pages, TRUE)

\* rank_page_ids with a mode it does not support.
RankPageIdsBadMode ==
    /\ call.op # "rank_page_ids"
    /\ \E ids \in RankIds : RankCall(ids, "pagerank", FALSE, <<>>, TRUE)

\* rank_page_ids on the whole list a ranking of the caller's list returned.
RerankPageIds ==
    /\ call.op = "rank_page_ids"
    /\ call.fresh
    /\ call.max_pages = <<>>
    /\ call.ret.kind = "list"
    /\ \E ascending \in BOOLEAN :
        RankCall(call.ret.val, "degree", ascending, <<>>, FALSE)

\* The category links of the documented example (Computer in Computers and
\* Computing, Computers in Computing), with Computing and Computers listed
\* under Hidden_categories.
ExampleRows == << <<2, 3>>, <<3, 4>>, <<2, 4>>, <<4, 1>>, <<3, 1>> >>

RECURSIVE Pick(_, _)
Pick(rows, keep) ==
    IF Len(rows) = 0 THEN <<>>
    ELSE LET front == Pick(SubSeq(rows, 1, Len(rows) - 1), keep)
         IN  IF Len(rows) \in keep THEN Append(front, rows[Len(rows)]) ELSE front

ExampleRowSets == {Pick(ExampleRows, keep) : keep \in SUBSET (1..Len(ExampleRows))}

\* get_degree_counts as the first call on the index.
GetDegreeCountsFirst ==
    /\ call = NoCall
    /\ GetDegreeCounts

InitRank == InitIndexFrom(ExampleRowSets) /\ InitIdle

NextRank == GetDegreeCountsFirst \/ RankPageIds \/ RankPageIdsBadMode \/ RerankPageIds

SpecRank == InitRank /\ [][NextRank]_vars

\* ----------------------------------------------------------- traversal
MaxEdges == 2
MaxLevel == 2

_namespace_to_code(namespace) ==
    IF namespace = <<"article">> THEN List(ARTICLE)
    ELSE IF namespace = <<"category">> THEN List(CATEGORY)
    ELSE IF namespace \in {<<ARTICLE>>, <<CATEGORY>>} THEN List(namespace[1])
    ELSE RaiseMsg("ValueError", "Invalid namespace")

\* get_page_from_title with standardize_title = False; the namespace is <<>>
\* for None.
get_page_from_title(obj, title, namespace) ==
    LET namespace_code == _namespace_to_code(namespace)
    IN  IF namespace_code.kind # "list" THEN namespace_code
        ELSE IF namespace_code.val \notin DOMAIN title_to_id
        THEN RaiseMsg("ValueError", "namespace is invalid")
        ELSE IF title \notin DOMAIN title_to_id[namespace_code.val]
        THEN RaiseMsg("ValueError", "Title not found in graph")
        ELSE get_page_from_id(obj, title_to_id[namespace_code.val][title])

\* _autodetect_id that rejects only a call without any selector.
_autodetect_id_some(page, id, title, namespace, obj) ==
    LET total_not_none == Len(page) + Len(id) + Len(title)
    IN  IF total_not_none = 0 THEN Raise("ValueError")
        ELSE IF page # <<>> THEN [kind |-> "id", val |-> page[1].id]
        ELSE IF id # <<>> THEN [kind |-> "id", val |-> id[1]]
        ELSE LET standardized == standardize(title[1])
                 detected ==
                     IF namespace # <<>> THEN namespace
                     ELSE IF standardized \in DOMAIN title_to_id[ARTICLE]
                     THEN <<"article">>
                     ELSE IF standardized \in DOMAIN title_to_id[CATEGORY]
                     THEN <<"category">>
                     ELSE <<>>
                 found == get_page_from_title(obj, standardized, detected)
             IN  IF "kind" \in DOMAIN found THEN found
                 ELSE [kind |-> "id", val |-> found.id]

\* _autodetect_id with skip_error_checking = False and standardize_title =
\* True, the defaults of its callers. Each of page, id, title
\* and namespace is <<>> for None and <<x>> for the value x.
_autodetect_id(page, id, title, namespace, obj) ==
    LET total_not_none == Len(page) + Len(id) + Len(title)
    IN  IF total_not_none = 0 \/ total_not_none > 1 THEN Raise("ValueError")
        ELSE IF page # <<>> THEN [kind |-> "id", val |-> page[1].id]
        ELSE IF id # <<>> THEN [kind |-> "id", val |-> id[1]]
        ELSE LET standardized == standardize(title[1])
                 detected ==
                     IF namespace # <<>> THEN namespace
                     ELSE IF standardized \in DOMAIN title_to_id[ARTICLE]
                     THEN <<"article">>
                     ELSE IF standardized \in DOMAIN title_to_id[CATEGORY]
                     THEN <<"category">>
                     ELSE <<>>
                 found == get_page_from_title(obj, standardized, detected)
             IN  IF "kind" \in DOMAIN found THEN found
                 ELSE [kind |-> "id", val |-> found.id]

get_parents(page, id, title, include_hidden, return_as, namespace, base) ==
    LET page_id == _autodetect_id(page, id, title, namespace, base)
    IN  IF page_id.kind # "id" THEN page_id
        ELSE autoconvert_list_of_ids(parent_ids(page_id.val, include_hidden),
                                     return_as, base)

get_children(page, id, title, include_hidden, return_as, base) ==
    LET page_id == _autodetect_id(page, id, title, <<"category">>, base)
    IN  IF page_id.kind # "id" THEN page_id
        ELSE autoconvert_list_of_ids(child_ids(page_id.val, include_hidden),
                                     return_as, base)

\* get_neighbors as traverse binds it
get_neighbors(direction, page, id, include_hidden, return_as, base) ==
    IF direction = "parents"
    THEN get_parents(page, id, <<>>, include_hidden, return_as, <<>>, base)
    ELSE get_children(page, id, <<>>, include_hidden, return_as, base)

\* traverse_visit that never adds the page to visited_ids.
traverse_visit_unmarked(st, page_id, neighbor_ids, flatten) ==
    [all_page_ids |->
        IF flatten THEN Append(st.all_page_ids, page_id)
        ELSE [st.all_page_ids EXCEPT ![Len(st.all_page_ids)] = Append(@, page_id)],
     next_lvl_page_ids |-> st.next_lvl_page_ids \o neighbor_ids,
     visited_ids |-> st.visited_ids,
     fetched |-> Append(st.fetched, page_id)]

\* The body of `if page_id not in visited_ids` in traverse (lines 864-874);
\* fetched logs the ids get_neighbors was called for (line 870).
traverse_visit(st, page_id, neighbor_ids, flatten) ==
    [all_page_ids |->
        IF flatten THEN Append(st.all_page_ids, page_id)
        ELSE [st.all_page_ids EXCEPT ![Len(st.all_page_ids)] = Append(@, page_id)],
     next_lvl_page_ids |-> st.next_lvl_page_ids \o neighbor_ids,
     visited_ids |-> st.visited_ids \cup {page_id},
     fetched |-> Append(st.fetched, page_id)]

\* `for page_id in lvl_page_ids`, from position i on.
RECURSIVE traverse_frontier(_, _, _, _, _, _)
traverse_frontier(direction, include_hidden, flatten, lvl_page_ids, i, st) ==
    IF i > Len(lvl_page_ids) THEN st
    ELSE LET page_id == lvl_page_ids[i]
             neighbor_ids ==
                 get_neighbors(direction, <<>>, <<page_id>>, include_hidden, "id", 0).val
         IN  traverse_frontier(direction, include_hidden, flatten, lvl_page_ids, i + 1,
                 IF page_id \notin st.visited_ids
                 THEN traverse_visit(st, page_id, neighbor_ids, flatten)
                 ELSE st)

\* traverse_levels with a visited set that starts empty at every level.
RECURSIVE traverse_levels_visited_per_level(_, _, _, _, _, _)
traverse_levels_visited_per_level(direction, include_hidden, flatten, level, lvl_page_ids, st) ==
    IF level <= 0 THEN st
    ELSE LET opened == [st EXCEPT !.all_page_ids = IF flatten THEN @ ELSE Append(@, <<>>),
                                  !.next_lvl_page_ids = <<>>,
                                  !.visited_ids = {}]
             closed == traverse_frontier(direction, include_hidden, flatten,
                                         lvl_page_ids, 1, opened)
         IN  traverse_levels_visited_per_level(direction, include_hidden, flatten,
                                               level - 1, closed.next_lvl_page_ids, closed)

\* `for _ in range(level)`, with level iterations left; gives the locals
\* after the last iteration.
RECURSIVE traverse_levels(_, _, _, _, _, _)
traverse_levels(direction, include_hidden, flatten, level, lvl_page_ids, st) ==
    IF level <= 0 THEN st
    ELSE LET opened == [st EXCEPT !.all_page_ids = IF flatten THEN @ ELSE Append(@, <<>>),
                                  !.next_lvl_page_ids = <<>>]
             closed == traverse_frontier(direction, include_hidden, flatten,
                                         lvl_page_ids, 1, opened)
         IN  traverse_levels(direction, include_hidden, flatten, level - 1,
                             closed.next_lvl_page_ids, closed)

\* The list comprehension with the empty levels left out.
RECURSIVE autoconvert_levels_nonempty(_, _, _, _)
autoconvert_levels_nonempty(all_page_ids, k, return_as, base) ==
    IF k > Len(all_page_ids) THEN List(<<>>)
    ELSE LET this == autoconvert_list_of_ids(all_page_ids[k], return_as, base)
             rest == autoconvert_levels_nonempty(all_page_ids, k + 1, return_as,
                                                 base + Len(all_page_ids[k]))
         IN  IF this.kind # "list" THEN this
             ELSE IF rest.kind # "list" THEN rest
             ELSE IF all_page_ids[k] = <<>> THEN rest
             ELSE List(<<this.val>> \o rest.val)

\* The list comprehension of the flatten = False return, from level k on.
RECURSIVE autoconvert_levels(_, _, _, _)
autoconvert_levels(all_page_ids, k, return_as, base) ==
    IF k > Len(all_page_ids) THEN List(<<>>)
    ELSE LET this == autoconvert_list_of_ids(all_page_ids[k], return_as, base)
             rest == autoconvert_levels(all_page_ids, k + 1, return_as,
                                        base + Len(all_page_ids[k]))
         IN  IF this.kind # "list" THEN this
             ELSE IF rest.kind # "list" THEN rest
             ELSE List(<<this.val>> \o rest.val)

\* traverse_locals with the start page in visited_ids from the beginning.
traverse_locals_start_visited(page, direction, level, flatten, include_hidden, base) ==
    LET lvl_page_ids ==
            get_neighbors(direction, <<page>>, <<>>, include_hidden, "id", base).val
    IN  traverse_levels(direction, include_hidden, flatten, level, lvl_page_ids,
                        [all_page_ids |-> <<>>, next_lvl_page_ids |-> <<>>,
                         visited_ids |-> {page.id}, fetched |-> <<>>])

\* The locals of traverse when its level loop has ended (lines 852-875).
traverse_locals(page, direction, level, flatten, include_hidden, base) ==
    LET lvl_page_ids ==
            get_neighbors(direction, <<page>>, <<>>, include_hidden, "id", base).val
    IN  traverse_levels(direction, include_hidden, flatten, level, lvl_page_ids,
                        [all_page_ids |-> <<>>, next_lvl_page_ids |-> <<>>,
                         visited_ids |-> {}, fetched |-> <<>>])

traverse(page, direction, level, flatten, include_hidden, return_as, base) ==
    IF direction \notin {"parents", "children"} THEN Raise("ValueError")
    ELSE LET all_page_ids ==
                 traverse_locals(page, direction, level, flatten, include_hidden,
                                 base).all_page_ids
         IN  IF flatten THEN autoconvert_list_of_ids(all_page_ids, return_as, base)
             ELSE autoconvert_levels(all_page_ids, 1, return_as, base)

ReturnAs == {"title", "id", "page"}
Directions == {"parents", "children"}
Levels == 1..MaxLevel

\* The selectors of a call that names page i by the arguments listed in by:
\* its Page, its id, its title, several of them or none.
OneSelector == {"page", "id", "title"}
MiscountedSelectors == {"none", "page+id", "page+title", "id+title", "page+id+title"}

Selectors(by, page, i) ==
    [page |-> IF by \in {"page", "page+id", "page+title", "page+id+title"}
              THEN <<page>> ELSE <<>>,
     id |-> IF by \in {"id", "page+id", "id+title", "page+id+title"}
            THEN <<i>> ELSE <<>>,
     title |-> IF by \in {"title", "page+title", "id+title", "page+id+title"}
               THEN <<Title(i)>> ELSE <<>>]

GetParentsCall(i, by, include_hidden, return_as) ==
    LET page == get_page_from_id(allocated + 1, i)
        sel == Selectors(by, page, i)
    IN  /\ call' = [op |-> "get_parents", by |-> by, page |-> page,
                    include_hidden |-> include_hidden, return_as |-> return_as,
                    ret |-> get_parents(sel.page, sel.id, sel.title, include_hidden,
                                        return_as, <<>>, allocated + 1)]
        /\ UNCHANGED <<indexVars, pathVars, degree_counts, cache_hidden>>

GetChildrenCall(i, by, include_hidden, return_as) ==
    LET page == get_page_from_id(allocated + 1, i)
        sel == Selectors(by, page, i)
    IN  /\ call' = [op |-> "get_children", by |-> by, page |-> page,
                    include_hidden |-> include_hidden, return_as |-> return_as,
                    ret |-> get_children(sel.page, sel.id, sel.title, include_hidden,
                                         return_as, allocated + 1)]
        /\ UNCHANGED <<indexVars, pathVars, degree_counts, cache_hidden>>

\* get_parents as the first call on the index, the page given as a Page, an
\* id or a title.
GetParents ==
    /\ call = NoCall
    /\ \E i \in Ids, by \in OneSelector,
          include_hidden \in BOOLEAN, return_as \in ReturnAs :
        GetParentsCall(i, by, include_hidden, return_as)

\* get_parents and get_children called with no selector or with several.
GetParentsMiscounted ==
    /\ call = NoCall
    /\ \E i \in Ids, by \in MiscountedSelectors : GetParentsCall(i, by, FALSE, "id")

GetChildrenMiscounted ==
    /\ call = NoCall
    /\ \E i \in Ids, by \in MiscountedSelectors : GetChildrenCall(i, by, FALSE, "id")

\* get_children as the first call on the index.
GetChildren ==
    /\ call = NoCall
    /\ \E i \in Ids, by \in OneSelector,
          include_hidden \in BOOLEAN, return_as \in ReturnAs :
        GetChildrenCall(i, by, include_hidden, return_as)

TraverseCall(i, direction, level, flatten, include_hidden, return_as) ==
    LET page == get_page_from_id(allocated + 1, i)
    IN  /\ call' = [op |-> "traverse", page |-> page, direction |-> direction,
                    level |-> level, flatten |-> flatten,
                    include_hidden |-> include_hidden, return_as |-> return_as,
                    fetched |->
                        IF direction \notin Directions THEN <<>>
                        ELSE traverse_locals(page, direction, level, flatten,
                                             include_hidden, allocated + 1).fetched,
                    ret |-> traverse(page, direction, level, flatten, include_hidden,
                                     return_as, allocated + 1)]
        /\ UNCHANGED <<indexVars, pathVars, degree_counts, cache_hidden>>

\* traverse as the first call on the index.
Traverse ==
    /\ call = NoCall
    /\ \E i \in Ids, direction \in Directions, level \in Levels, flatten \in BOOLEAN,
          include_hidden \in BOOLEAN, return_as \in ReturnAs :
        TraverseCall(i, direction, level, flatten, include_hidden, return_as)

\* traverse with a level for which range(level) is empty.
TraverseNoLevel ==
    /\ call = NoCall
    /\ \E i \in Ids, direction \in Directions, level \in {0 - 1, 0}, flatten \in BOOLEAN :
        TraverseCall(i, direction, level, flatten, FALSE, "id")

\* traverse in a direction it does not support.
TraverseBadDirection ==
    /\ call = NoCall
    /\ \E i \in Ids : TraverseCall(i, "siblings", 1, TRUE, FALSE, "id")

TraverseRows == UNION {[1..n -> Ids \X CategoryIds] : n \in 0..MaxEdges}

InitTraverse == InitIndexFrom(TraverseRows) /\ InitIdle

NextTraverse ==
    \/ TraverseNoLevel
    \/ GetParents
    \/ GetChildren
    \/ GetParentsMiscounted
    \/ GetChildrenMiscounted
    \/ Traverse
    \/ TraverseBadDirection

SpecTraverse == InitTraverse /\ [][NextTraverse]_vars

\* -------------------------------------------------------- construction
RequiredKeys == {"id_to_title", "id_to_namespace", "title_to_id",
                 "children_to_parents", "parents_to_children"}

Without(d, k) == [x \in (DOMAIN d) \ {k} |-> d[x]]

\* A snapshot in which no category is titled Hidden_categories.
WithoutHiddenTitle(graph_json) ==
    [graph_json EXCEPT !.title_to_id =
        [@ EXCEPT ![CATEGORY] = Without(@, HiddenTitle)]]

\* The snapshots handed to the constructor: generated ones, as generated
\* or with an empty entry for Hidden_categories, complete, or lacking one
\* top-level key, or lacking the title Hidden_categories.
Snapshots ==
    LET generated == {generate_graph(rows) : rows \in TraverseRows}
        complete == generated \cup {WithEmptyHidden(g) : g \in generated}
    IN  complete
          \cup {Without(g, k) : g \in complete, k \in RequiredKeys}
          \cup {WithoutHiddenTitle(g) : g \in complete}

\* CategoryGraph.__init__: the attributes it sets, or the KeyError of the
\* first subscript that fails.
construct(graph_json) ==
    IF "id_to_title" \notin DOMAIN graph_json THEN Raise("KeyError")
    ELSE IF "id_to_namespace" \notin DOMAIN graph_json THEN Raise("KeyError")
    ELSE IF "title_to_id" \notin DOMAIN graph_json THEN Raise("KeyError")
    ELSE IF "children_to_parents" \notin DOMAIN graph_json THEN Raise("KeyError")
    ELSE IF "parents_to_children" \notin DOMAIN graph_json THEN Raise("KeyError")
    ELSE IF CATEGORY \notin DOMAIN graph_json.title_to_id THEN Raise("KeyError")
    ELSE IF HiddenTitle \notin DOMAIN graph_json.title_to_id[CATEGORY]
    THEN Raise("KeyError")
    ELSE LET hidden_id == graph_json.title_to_id[CATEGORY][HiddenTitle]
         IN  IF hidden_id \notin DOMAIN graph_json.parents_to_children
             THEN Raise("KeyError")
             ELSE LET hidden == split(graph_json.parents_to_children[hidden_id])
                  IN  IF hidden.kind # "list" THEN hidden
                      ELSE [kind |-> "CategoryGraph",
                            id_to_title |-> graph_json.id_to_title,
                            id_to_namespace |-> graph_json.id_to_namespace,
                            title_to_id |-> graph_json.title_to_id,
                            children_to_parents |-> graph_json.children_to_parents,
                            parents_to_children |-> graph_json.parents_to_children,
                            hidden_categories |-> Range(hidden.val)]

\* No CategoryGraph object exists yet.
InitUnbuilt ==
    /\ id_to_title = NoAttr
    /\ id_to_namespace = NoAttr
    /\ title_to_id = NoAttr
    /\ children_to_parents = NoAttr
    /\ parents_to_children = NoAttr
    /\ hidden_categories = NoAttr
    /\ InitIdle

\* CategoryGraph(graph_json); a constructor that raises leaves no object.
ConstructFrom(graph_json, encoding) ==
    LET cg == construct(graph_json)
    IN  /\ call' = [op |-> "__init__", graph_json |-> graph_json,
                    encoding |-> encoding,
                    ret |-> IF cg.kind = "CategoryGraph" THEN None ELSE cg]
        /\ IF cg.kind = "CategoryGraph"
           THEN /\ id_to_title' = cg.id_to_title
                /\ id_to_namespace' = cg.id_to_namespace
                /\ title_to_id' = cg.title_to_id
                /\ children_to_parents' = cg.children_to_parents
                /\ parents_to_children' = cg.parents_to_children
                /\ hidden_categories' = cg.hidden_categories
           ELSE UNCHANGED indexVars
        /\ UNCHANGED <<pathVars, degree_counts, cache_hidden>>

Construct ==
    /\ call = NoCall
    /\ \E graph_json \in Snapshots : ConstructFrom(graph_json, "str")

SpecConstruct == InitUnbuilt /\ [][Construct]_vars

\* The snapshot with every adjacency value written as a list of ids.
AsLists(adjacency) == [k \in DOMAIN adjacency |-> ListOfIds(Split(adjacency[k]))]

EncodedAsLists(graph_json) ==
    [graph_json EXCEPT !.children_to_parents = AsLists(@),
                       !.parents_to_children = AsLists(@)]

\* Construction from a generated snapshot that lists Hidden_categories, in
\* the encoding generate_graph writes or with lists of ids.
ConstructEncoded ==
    /\ call = NoCall
    /\ \E rows \in Rows, encoding \in {"str", "list"} :
        LET graph_json == WithEmptyHidden(generate_graph(rows))
        IN  ConstructFrom(IF encoding = "list" THEN EncodedAsLists(graph_json)
                          ELSE graph_json,
                          encoding)

SpecEncoding == InitUnbuilt /\ [][ConstructEncoded]_vars

\* ------------------------------------------------------ title lookup
\* A title no page has.
UnknownTitle == <<"title", "0">>

\* The article titled like page c: like itself, or like a category.
Titlings ==
    {[i \in Ids |-> IF NamespaceCode(i) = ARTICLE THEN Title(c) ELSE Title(i)] : c \in Ids}

\* get_parents(title=t) with no namespace named, as the first call.
GetParentsByTitle ==
    /\ call = NoCall
    /\ \E t \in {Title(i) : i \in Ids} \cup {UnknownTitle},
          include_hidden \in BOOLEAN, return_as \in ReturnAs :
        call' = [op |-> "get_parents", by |-> "title", title |-> t,
                 include_hidden |-> include_hidden, return_as |-> return_as,
                 ret |-> get_parents(<<>>, <<>>, <<t>>, include_hidden, return_as,
                                     <<>>, allocated + 1)]
    /\ UNCHANGED <<indexVars, pathVars, degree_counts, cache_hidden>>

InitTitles == InitIndexTitled(TraverseRows, Titlings) /\ InitIdle

SpecTitles == InitTitles /\ [][GetParentsByTitle]_vars

\* ------------------------------------------------------- synthetic root
\* The configured titles of the top-level categories.
TOP_LEVEL_CATEGORIES == <<Title(HiddenId + 2), Title(HiddenId + 3)>>

\* get_top_level_categories that leaves out the last configured title.
get_top_level_categories_but_last(return_as, base) ==
    LET found == [k \in 1..(Len(TOP_LEVEL_CATEGORIES) - 1) |->
                    get_page_from_title(base + k, standardize(TOP_LEVEL_CATEGORIES[k]),
                                        <<"category">>)]
        failed == {k \in 1..Len(found) : "kind" \in DOMAIN found[k]}
    IN  IF failed # {} THEN found[CHOOSE k \in failed : \A j \in failed : k <= j]
        ELSE autoconvert_list_of_ids([k \in 1..Len(found) |-> found[k].id], return_as,
                                     base + Len(found))

\* get_top_level_categories: the first title that is not found raises.
get_top_level_categories(return_as, base) ==
    LET found == [k \in 1..Len(TOP_LEVEL_CATEGORIES) |->
                    get_page_from_title(base + k, standardize(TOP_LEVEL_CATEGORIES[k]),
                                        <<"category">>)]
        failed == {k \in 1..Len(found) : "kind" \in DOMAIN found[k]}
    IN  IF failed # {} THEN found[CHOOSE k \in failed : \A j \in failed : k <= j]
        ELSE autoconvert_list_of_ids([k \in 1..Len(found) |-> found[k].id], return_as,
                                     base + Len(found))

\* The ids a caller may give the root, neither used by a page, and the text
\* of each: the viewer's ROOT_ID and one with a space.
RootIds == {NumIds + 1, NumIds + 2}
RootText(root_id) == IF root_id = NumIds + 1 THEN <<"((ROOT))">> ELSE <<"my", " ", "root">>

\* The root the index holds, if any.
Roots == IF id_to_title = NoAttr THEN {} ELSE DOMAIN id_to_title \cap RootIds

\* Snapshots with the configured titles, and snapshots in which the second
\* top-level category goes by another title.
RootTitlings ==
    {OwnTitles, [OwnTitles EXCEPT ![HiddenId + 3] = <<"Renamed">>]}

\* insert_artificial_root_node(cg, root_id) on an index without a root. The
\* three assignments before get_top_level_categories stay when it raises.
InsertRoot ==
    /\ Roots = {}
    /\ \E root_id \in RootIds :
        /\ id_to_title' = DictSet(id_to_title, root_id, RootText(root_id))
        /\ id_to_namespace' = DictSet(id_to_namespace, root_id, "category")
        /\ title_to_id' = [title_to_id EXCEPT
                              ![CATEGORY] = DictSet(@, RootText(root_id), root_id)]
        /\ UNCHANGED <<hidden_categories, pathVars, degree_counts, cache_hidden>>
        /\ LET top_level == get_top_level_categories("id", allocated + 1)'
           IN  IF top_level.kind # "list"
               THEN /\ UNCHANGED <<children_to_parents, parents_to_children>>
                    /\ call' = [op |-> "insert_artificial_root_node",
                                root_id |-> root_id, ret |-> top_level]
               ELSE /\ parents_to_children' =
                           DictSet(parents_to_children, root_id, Join(top_level.val))
                    /\ children_to_parents' = DictSet(children_to_parents, root_id, <<>>)
                    /\ call' = [op |-> "insert_artificial_root_node",
                                root_id |-> root_id, ret |-> None]

Inserted == call.op = "insert_artificial_root_node" /\ call.ret = None

\* get_children and get_parents of the root, right after its insertion.
GetChildrenOfRoot ==
    /\ Inserted
    /\ \E by \in {"page", "id"}, include_hidden \in BOOLEAN :
        GetChildrenCall(call.root_id, by, include_hidden, "id")

GetParentsOfRoot ==
    /\ Inserted
    /\ \E by \in {"page", "id"}, include_hidden \in BOOLEAN :
        GetParentsCall(call.root_id, by, include_hidden, "id")

\* get_page_from_id(root_id), right after the insertion.
GetPageOfRoot ==
    /\ Inserted
    /\ call' = [op |-> "get_page_from_id", id |-> call.root_id,
                ret |-> get_page_from_id(allocated + 1, call.root_id)]
    /\ UNCHANGED <<indexVars, pathVars, degree_counts, cache_hidden>>

\* get_parents of a page of the snapshot, right after the insertion.
GetParentsAfterInsert ==
    /\ Inserted
    /\ \E i \in Ids : GetParentsCall(i, "id", TRUE, "id")

\* get_degree_counts when nothing is cached, before or after the insertion.
GetDegreeCountsUncached ==
    /\ degree_counts = NoAttr
    /\ GetDegreeCounts

InitRoot == InitIndexTitled(TraverseRows, RootTitlings) /\ InitIdle

NextRoot ==
    \/ InsertRoot
    \/ GetChildrenOfRoot
    \/ GetParentsOfRoot
    \/ GetPageOfRoot
    \/ GetParentsAfterInsert
    \/ GetDegreeCountsUncached

SpecRoot == InitRoot /\ [][NextRoot]_vars

\* ------------------------------------------------------- invalid input
\* An id no page has, and a return_as that is none of the three forms.
UnknownId == NumIds + 1
ReturnAsOrInvalid == ReturnAs \cup {"json"}

\* rank_page_ids that fetches the degree counts before it checks the mode.
RankAs_CountsFirst(ids, mode, return_as) ==
    /\ degree_counts' = degree_counts_after(FALSE, TRUE)
    /\ cache_hidden' = IF degree_counts # NoAttr THEN cache_hidden ELSE {FALSE}
    /\ call' = [op |-> "rank_page_ids", ids |-> ids, mode |-> mode,
                return_as |-> return_as, had_cache |-> degree_counts # NoAttr,
                ret |-> IF mode # "degree" THEN Raise("ValueError")
                        ELSE rank_page_ids(ids, mode, FALSE, <<>>, return_as,
                                           degree_counts'.val)]
    /\ UNCHANGED <<indexVars, pathVars>>

\* rank_page_ids(ids, mode, return_as=return_as): the mode is checked, then
\* get_degree_counts() is called, then the ids are sorted and converted.
RankAs(ids, mode, return_as) ==
    /\ degree_counts' = IF mode # "degree" THEN degree_counts
                        ELSE degree_counts_after(FALSE, TRUE)
    /\ cache_hidden' = IF mode # "degree" \/ degree_counts # NoAttr THEN cache_hidden
                       ELSE {FALSE}
    /\ call' = [op |-> "rank_page_ids", ids |-> ids, mode |-> mode,
                return_as |-> return_as, had_cache |-> degree_counts # NoAttr,
                ret |-> IF mode # "degree" THEN Raise("ValueError")
                        ELSE rank_page_ids(ids, mode, FALSE, <<>>, return_as,
                                           degree_counts'.val)]
    /\ UNCHANGED <<indexVars, pathVars>>

\* rank_page_ids on known ids, or on a known and an unknown one, in a
\* supported or unsupported mode, returned in a valid or invalid form.
RankPageIdsAs ==
    \E ids \in {<<HiddenId, HiddenId + 1>>, <<HiddenId, UnknownId>>},
       mode \in {"degree", "pagerank"}, return_as \in ReturnAsOrInvalid :
        RankAs(ids, mode, return_as)

\* get_page_from_id of an unknown id.
GetPageUnknownId ==
    /\ call' = [op |-> "get_page_from_id", id |-> UnknownId,
                ret |-> get_page_from_id(allocated + 1, UnknownId)]
    /\ UNCHANGED <<indexVars, pathVars, degree_counts, cache_hidden>>

\* get_parents by a title no page has.
GetParentsUnknownTitle ==
    /\ call' = [op |-> "get_parents", by |-> "title", title |-> UnknownTitle,
                include_hidden |-> FALSE, return_as |-> "id",
                ret |-> get_parents(<<>>, <<>>, <<UnknownTitle>>, FALSE, "id", <<>>,
                                    allocated + 1)]
    /\ UNCHANGED <<indexVars, pathVars, degree_counts, cache_hidden>>

\* get_parents and get_children with a miscounted selector or an invalid
\* return_as.
GetNeighborsInvalid ==
    \E i \in {HiddenId, HiddenId + 1} :
        \/ \E by \in MiscountedSelectors : GetParentsCall(i, by, FALSE, "id")
        \/ GetParentsCall(i, "id", FALSE, "json")
        \/ GetChildrenCall(i, "page", FALSE, "json")

\* traverse in an unsupported direction or with an invalid return_as.
TraverseInvalid ==
    \E i \in {HiddenId, HiddenId + 1} :
        \/ TraverseCall(i, "siblings", 1, TRUE, FALSE, "id")
        \/ \E flatten \in BOOLEAN : TraverseCall(i, "parents", 1, flatten, FALSE, "json")

InitFailures == InitIndexFrom(TraverseRows) /\ InitIdle

\* The invalid calls are made on a fresh index or after get_degree_counts;
\* get_degree_counts is made at any time.
AfterDegreeCounts == call.op \in {"none", "get_degree_counts"}

NextFailures ==
    \/ GetDegreeCounts
    \/ AfterDegreeCounts /\ RankPageIdsAs
    \/ AfterDegreeCounts /\ GetPageUnknownId
    \/ AfterDegreeCounts /\ GetParentsUnknownTitle
    \/ AfterDegreeCounts /\ GetNeighborsInvalid
    \/ AfterDegreeCounts /\ TraverseInvalid

SpecFailures == InitFailures /\ [][NextFailures]_vars

\* ------------------------------------------------- life of the cache
\* rank_page_ids on two ids of the index, the root among them once inserted.
RankIndexed ==
    \E i \in DOMAIN id_to_title : RankAs(<<HiddenId, i>>, "degree", "id")

\* get_parents and get_children of a page of the snapshot.
GetNeighborsById ==
    \E i \in Ids, include_hidden \in BOOLEAN :
        \/ GetParentsCall(i, "id", include_hidden, "id")
        \/ GetChildrenCall(i, "id", include_hidden, "id")

InitCache == InitIndexTitled(TraverseRows, RootTitlings) /\ InitIdle

NextCache ==
    \/ GetDegreeCounts
    \/ RankIndexed
    \/ InsertRoot
    \/ GetNeighborsById

SpecCache == InitCache /\ [][NextCache]_vars

\* ------------------------------------------------------------ viewer
\* The while loop of bfs_with_backlinks run to its end.
RECURSIVE bfs_with_backlinks(_, _, _, _)
bfs_with_backlinks(q, bl, tgt, base) ==
    IF q = <<>> THEN None
    ELSE LET page == Head(q)
             parents == parent_ids(page.id, FALSE)
             out == bfs_visit(parents, 1, page, base, bl, Tail(q))
         IN  IF PageEq(page, tgt) THEN Dict(bl)
             ELSE bfs_with_backlinks(out.queue, out.backlinks, tgt, base + Len(parents))

\* root = cg.get_page_from_id(ROOT_ID); root.id
root_id == CHOOSE r \in Roots : TRUE

\* The ids of the pages of a list that are categories.
CategoriesOf(pages) ==
    LET kept == SelectSeq(pages, LAMBDA p : p.namespace = "category")
    IN  [i \in 1..Len(kept) |-> kept[i].id]

\* [x for x in values if x in stored_data]
KeptIn(values, stored_data) == SelectSeq(values, LAMBDA x : x \in stored_data)

\* A checklist value: None until a callback or the user sets it.
NoValue == <<>>
Value(ids) == <<ids>>
OrEmpty(value) == IF value = NoValue THEN <<>> ELSE value[1]

\* build_app after the insertion of the root: the store holds [root.id], the
\* two checklists have no options and no value, no node was clicked.
BuildStores ==
    /\ Inserted
    /\ checklists = None
    /\ selected_nodes' = {root_id}
    /\ clicked_data' = None
    /\ checklists' = [options_children |-> <<>>, value_children |-> NoValue,
                      options_parents |-> <<>>, value_parents |-> NoValue]
    /\ UNCHANGED <<indexVars, queryVars, searchVars, workers>>

AppBuilt == checklists # None

\* The user taps a node of the graph, which shows the selected nodes;
\* update_checklist lists the category children and parents of the node and
\* ticks those the store holds.
TapNode ==
    /\ AppBuilt
    /\ \E id \in selected_nodes :
        LET children == CategoriesOf(get_children(<<>>, <<id>>, <<>>, FALSE, "page", 0).val)
            parents == CategoriesOf(get_parents(<<>>, <<id>>, <<>>, FALSE, "page", <<>>, 0).val)
        IN  /\ clicked_data' = [id |-> id]
            /\ checklists' = [options_children |-> children,
                              value_children |-> Value(KeptIn(children, selected_nodes)),
                              options_parents |-> parents,
                              value_parents |-> Value(KeptIn(parents, selected_nodes))]
    /\ UNCHANGED <<indexVars, queryVars, searchVars, workers, selected_nodes>>

\* The children switch or the parents switch is moved: update_checklist sets
\* the value of that checklist to all children (parents) of the clicked node,
\* or to none.
MoveSwitch ==
    /\ AppBuilt
    /\ clicked_data # None
    /\ \E checked \in BOOLEAN :
        \/ checklists' = [checklists EXCEPT !.value_children =
                Value(IF checked
                      THEN get_children(<<>>, <<clicked_data.id>>, <<>>, FALSE, "id", 0).val
                      ELSE <<>>)]
        \/ checklists' = [checklists EXCEPT !.value_parents =
                Value(IF checked
                      THEN get_parents(<<>>, <<clicked_data.id>>, <<>>, FALSE, "id", <<>>, 0).val
                      ELSE <<>>)]
    /\ UNCHANGED <<indexVars, queryVars, searchVars, workers, selected_nodes, clicked_data>>

\* The user ticks or unticks options of a checklist.
TickOptions ==
    /\ AppBuilt
    /\ \E ticked \in SUBSET Ids :
        \/ /\ checklists.options_children # <<>>
           /\ checklists' = [checklists EXCEPT !.value_children =
                   Value(KeptIn(checklists.options_children, ticked))]
        \/ /\ checklists.options_parents # <<>>
           /\ checklists' = [checklists EXCEPT !.value_parents =
                   Value(KeptIn(checklists.options_parents, ticked))]
    /\ UNCHANGED <<indexVars, queryVars, searchVars, workers, selected_nodes, clicked_data>>

\* An Update button that makes the ticked ids the whole store.
UpdateGraph_TickedOnly ==
    /\ AppBuilt
    /\ IF checklists.value_children = NoValue /\ checklists.value_parents = NoValue
       THEN UNCHANGED selected_nodes
       ELSE selected_nodes' = Range(OrEmpty(checklists.value_children)
                                      \o OrEmpty(checklists.value_parents))
    /\ UNCHANGED <<indexVars, queryVars, searchVars, workers, clicked_data, checklists>>

\* The Update button: update_selected_nodes adds the ticked ids to the store
\* and discards the options that are not ticked (lines 166-194).
UpdateGraph ==
    /\ AppBuilt
    /\ IF checklists.value_children = NoValue /\ checklists.value_parents = NoValue
       THEN UNCHANGED selected_nodes
       ELSE LET selected == Range(OrEmpty(checklists.value_children)
                                    \o OrEmpty(checklists.value_parents))
                options == checklists.options_children \o checklists.options_parents
                not_selected == Range(SelectSeq(options, LAMBDA o : o \notin selected))
            IN  selected_nodes' = (selected_nodes \cup selected) \ not_selected
    /\ UNCHANGED <<indexVars, queryVars, searchVars, workers, clicked_data, checklists>>

\* The Reset button: update_selected_nodes returns [root.id];
\* update_checklist empties both checklists once a node was clicked.
ResetGraph ==
    /\ AppBuilt
    /\ selected_nodes' = {root_id}
    /\ checklists' = IF clicked_data = None THEN checklists
                     ELSE [options_children |-> <<>>, value_children |-> Value(<<>>),
                           options_parents |-> <<>>, value_parents |-> Value(<<>>)]
    /\ UNCHANGED <<indexVars, queryVars, searchVars, workers, clicked_data>>

\* The Compute Path button, for an article title typed and a top-level
\* category chosen: the store becomes [root.id] + chain; a callback that
\* raises leaves the store as it is.
ShowPath ==
    /\ AppBuilt
    /\ \E chosen_article_name \in {Title(i) : i \in Ids} \cup {UnknownTitle},
          chosen_tlc_id \in Ids :
        LET art == get_page_from_title(1, chosen_article_name, <<"article">>)
            tgt == get_page_from_id(2, chosen_tlc_id)
            found == bfs_with_backlinks(<<art>>, EmptyDict, tgt, 2)
            path == extract_chain(found, art, tgt)
        IN  IF "obj" \notin DOMAIN art \/ "obj" \notin DOMAIN tgt
            THEN UNCHANGED selected_nodes
            ELSE IF path.kind # "list" THEN UNCHANGED selected_nodes
            ELSE selected_nodes' = {root_id} \cup Range(path.val)
    /\ UNCHANGED <<indexVars, queryVars, searchVars, workers, clicked_data, checklists>>

InitViewer == InitIndexFrom(TraverseRows) /\ InitIdle

NextViewer ==
    \/ Roots = {} /\ InsertRoot
    \/ BuildStores
    \/ TapNode
    \/ MoveSwitch
    \/ TickOptions
    \/ UpdateGraph
    \/ ResetGraph
    \/ ShowPath

SpecViewer == InitViewer /\ [][NextViewer]_vars

\* ------------------------------------------------ concurrent callers
\* Two callers share one CategoryGraph; a step of a caller is one statement
\* of get_degree_counts or of rank_page_ids.
Workers == {1, 2}

\* `for id_ in self.id_to_title`, the keys taken in ascending order.
KeysInOrder(d) ==
    SelectSeq([i \in 1..(NumIds + 2) |-> i], LAMBDA i : i \in DOMAIN d)

\* A list of the keys of id_to_title that leaves the last one out.
iteration_order_but_last ==
    LET keys == KeysInOrder(id_to_title)
    IN  SubSeq(keys, 1, Len(keys) - 1)

iteration_order == KeysInOrder(id_to_title)

\* The ids the callers other than w have still to store in their loop.
UnfilledByOthers(w) ==
    UNION {Range(workers[v].todo) : v \in {v \in Workers \ {w} : workers[v].pc = "loop"}}

\* What the name `counts` of a caller refers to: the dict self.degree_counts
\* holds now (alias), or a dict the attribute held before it was rebound.
Alias == [alias |-> TRUE, val |-> EmptyDict]
Rebound(val) == [alias |-> FALSE, val |-> val]
Deref(counts) == IF counts.alias THEN degree_counts.val ELSE counts.val

IdleWorker ==
    [op |-> "none", include_hidden |-> FALSE, use_cache |-> TRUE, ids |-> <<>>,
     pc |-> "idle", todo |-> <<>>, counts |-> Rebound(EmptyDict), handed |-> <<>>,
     ret |-> None]

\* Caller w enters get_degree_counts(include_hidden, use_cache), or
\* rank_page_ids(ids) whose line 690 enters get_degree_counts().
Enter(w) ==
    /\ workers[w].pc = "idle"
    /\ \/ \E include_hidden \in BOOLEAN, use_cache \in BOOLEAN :
            workers' = [workers EXCEPT ![w] =
                [@ EXCEPT !.op = "get_degree_counts", !.include_hidden = include_hidden,
                          !.use_cache = use_cache, !.pc = "test"]]
       \/ workers' = [workers EXCEPT ![w] =
                [@ EXCEPT !.op = "rank_page_ids", !.ids = <<HiddenId, HiddenId + 1>>,
                          !.pc = "test"]]
    /\ UNCHANGED <<indexVars, queryVars, pc, article, target, queue, backlinks,
                   allocated, result, chain, viewerVars>>

\* `if use_cache and hasattr(self, "degree_counts")` (line 626)
TestCache(w) ==
    /\ workers[w].pc = "test"
    /\ workers' = [workers EXCEPT ![w].pc =
            IF cache_hit(workers[w].include_hidden, workers[w].use_cache)
            THEN "hit" ELSE "publish"]
    /\ UNCHANGED <<indexVars, queryVars, pc, article, target, queue, backlinks,
                   allocated, result, chain, viewerVars>>

\* What get_degree_counts hands its caller: the dict the attribute holds at
\* that moment; handed logs its content then and the ids others had not
\* stored yet.
Handed(w) ==
    [workers[w] EXCEPT
        !.counts = Alias,
        !.handed = <<[val |-> degree_counts.val, unfilled |-> UnfilledByOthers(w)]>>,
        !.ret = IF workers[w].op = "get_degree_counts" THEN degree_counts ELSE None,
        !.pc = IF workers[w].op = "get_degree_counts" THEN "done" ELSE "sort"]

\* `return self.degree_counts` (line 627)
ReturnCached(w) ==
    /\ workers[w].pc = "hit"
    /\ workers' = [workers EXCEPT ![w] = Handed(w)]
    /\ UNCHANGED <<indexVars, queryVars, pc, article, target, queue, backlinks,
                   allocated, result, chain, viewerVars>>

\* `self.degree_counts = {}` (line 630): the attribute is bound to a new
\* empty dict; a caller that holds the old one keeps it as it is.
Publish(w) ==
    /\ workers[w].pc = "publish"
    /\ degree_counts' = Dict(EmptyDict)
    /\ cache_hidden' = {workers[w].include_hidden}
    /\ workers' = [v \in Workers |->
            IF v = w THEN [workers[v] EXCEPT !.pc = "loop", !.todo = iteration_order]
            ELSE IF workers[v].counts.alias
            THEN [workers[v] EXCEPT !.counts = Rebound(degree_counts.val)]
            ELSE workers[v]]
    /\ UNCHANGED <<indexVars, call, pc, article, target, queue, backlinks,
                   allocated, result, chain, viewerVars>>

\* One iteration of the loop (lines 632-643): the count of the next id is
\* stored in the dict the attribute holds now; the loop ends when no id is left.
Fill(w) ==
    /\ workers[w].pc = "loop"
    /\ IF workers[w].todo = <<>>
       THEN /\ workers' = [workers EXCEPT ![w].pc = "return"]
            /\ UNCHANGED degree_counts
       ELSE LET id_ == Head(workers[w].todo)
            IN  /\ degree_counts' =
                        Dict(DictSet(degree_counts.val, id_,
                                     compute_degree_counts(workers[w].include_hidden)[id_]))
                /\ workers' = [workers EXCEPT ![w].todo = Tail(@)]
    /\ UNCHANGED <<indexVars, cache_hidden, call, pc, article, target, queue, backlinks,
                   allocated, result, chain, viewerVars>>

\* `return self.degree_counts` (line 645)
ReturnComputed(w) ==
    /\ workers[w].pc = "return"
    /\ workers' = [workers EXCEPT ![w] = Handed(w)]
    /\ UNCHANGED <<indexVars, queryVars, pc, article, target, queue, backlinks,
                   allocated, result, chain, viewerVars>>

\* Lines 691-694 of rank_page_ids, counts being the dict it was handed.
Sort(w) ==
    /\ workers[w].pc = "sort"
    /\ workers' = [workers EXCEPT ![w] =
            [@ EXCEPT !.ret = rank_page_ids(workers[w].ids, "degree", FALSE, <<>>, "id",
                                            Deref(workers[w].counts)),
                      !.pc = "done"]]
    /\ UNCHANGED <<indexVars, queryVars, pc, article, target, queue, backlinks,
                   allocated, result, chain, viewerVars>>

ConcurrentRows == UNION {[1..n -> Ids \X CategoryIds] : n \in 0..1}

\* The two callers idle, and either no cache yet or the cache an earlier
\* get_degree_counts() has left.
InitConcurrent ==
    /\ InitIndexFrom(ConcurrentRows)
    /\ workers = [w \in Workers |-> IdleWorker]
    /\ \/ degree_counts = NoAttr /\ cache_hidden = {}
       \/ degree_counts = Dict(compute_degree_counts(FALSE)) /\ cache_hidden = {FALSE}
    /\ call = NoCall
    /\ selected_nodes = None
    /\ clicked_data = None
    /\ checklists = None
    /\ pc = "idle"
    /\ article = None
    /\ target = None
    /\ queue = <<>>
    /\ backlinks = EmptyDict
    /\ allocated = 0
    /\ result = None
    /\ chain = None

NextConcurrent ==
    \E w \in Workers :
        \/ Enter(w)
        \/ TestCache(w)
        \/ ReturnCached(w)
        \/ Publish(w)
        \/ Fill(w)
        \/ ReturnComputed(w)
        \/ Sort(w)

SpecConcurrent == InitConcurrent /\ [][NextConcurrent]_vars

\* ------------------------------------------------------- every operation
Bool(b) == [kind |-> "bool", val |-> b]

\* contains_id
contains_id(id) == Bool(id \in DOMAIN id_to_title)

\* contains_title; the namespace is <<>> for None.
contains_title(title, namespace, standardize_title) ==
    LET t == IF standardize_title THEN standardize(title) ELSE title
    IN  IF namespace # <<>>
        THEN LET namespace_code == _namespace_to_code(namespace)
             IN  IF namespace_code.kind # "list" THEN namespace_code
                 ELSE IF namespace_code.val \notin DOMAIN title_to_id THEN Raise("KeyError")
                 ELSE Bool(t \in DOMAIN title_to_id[namespace_code.val])
        ELSE Bool(\E namespace_code \in DOMAIN title_to_id :
                    t \in DOMAIN title_to_id[namespace_code])

\* The ids and titles the calls below are made with: pages of the snapshot,
\* the root once inserted, and an id and a title no page has.
SomeIds == {HiddenId, HiddenId + 2, UnknownId} \cup Roots
SomeTitles == {Title(HiddenId + 1), Title(HiddenId + 2), UnknownTitle}

\* get_parents that enters a page without parents into children_to_parents.
GetParentsFrame_setdefault(i, by, include_hidden, return_as) ==
    LET page == get_page_from_id(allocated + 1, i)
        sel == Selectors(by, page, i)
    IN  /\ call' = [op |-> "get_parents", by |-> by, page |-> page,
                    include_hidden |-> include_hidden, return_as |-> return_as,
                    ret |-> get_parents(sel.page, sel.id, sel.title, include_hidden,
                                        return_as, <<>>, allocated + 1)]
        /\ children_to_parents' =
                IF i \in DOMAIN children_to_parents THEN children_to_parents
                ELSE DictSet(children_to_parents, i, <<>>)
        /\ UNCHANGED <<id_to_title, id_to_namespace, title_to_id, parents_to_children,
                       hidden_categories, pathVars, degree_counts, cache_hidden>>

\* get_parents as the calls below make it.
GetParentsFrame(i, by, include_hidden, return_as) ==
    GetParentsCall(i, by, include_hidden, return_as)

ContainsId ==
    \E id \in SomeIds :
        /\ call' = [op |-> "contains_id", id |-> id, ret |-> contains_id(id)]
        /\ UNCHANGED <<indexVars, pathVars, degree_counts, cache_hidden>>

ContainsTitle ==
    \E title \in SomeTitles, namespace \in {<<>>, <<"article">>, <<"talk">>} :
        /\ call' = [op |-> "contains_title", title |-> title, namespace |-> namespace,
                    ret |-> contains_title(title, namespace, TRUE)]
        /\ UNCHANGED <<indexVars, pathVars, degree_counts, cache_hidden>>

GetPageFromId ==
    \E id \in SomeIds :
        /\ call' = [op |-> "get_page_from_id", id |-> id,
                    ret |-> get_page_from_id(allocated + 1, id)]
        /\ UNCHANGED <<indexVars, pathVars, degree_counts, cache_hidden>>

GetPageFromTitle ==
    \E title \in SomeTitles, namespace \in {<<"article">>, <<"category">>} :
        /\ call' = [op |-> "get_page_from_title", title |-> title, namespace |-> namespace,
                    ret |-> get_page_from_title(allocated + 1, title, namespace)]
        /\ UNCHANGED <<indexVars, pathVars, degree_counts, cache_hidden>>

\* get_parents and get_children, with valid and with invalid arguments.
GetNeighborsAny ==
    \E i \in Ids, by \in {"id", "none"}, return_as \in {"id", "json"} :
        \/ GetParentsFrame(i, by, FALSE, return_as)
        \/ GetChildrenCall(i, by, FALSE, return_as)

RemoveHiddenIds ==
    \E ids \in {<<>>, <<HiddenId + 2, HiddenId + 3>>, <<HiddenId + 3, UnknownId>>} :
        /\ call' = [op |-> "remove_hidden_ids", ids |-> ids,
                    ret |-> List(remove_hidden_ids(ids))]
        /\ UNCHANGED <<indexVars, pathVars, degree_counts, cache_hidden>>

\* traverse, in a direction it supports or not.
TraverseAny ==
    \E i \in Ids, direction \in Directions \cup {"siblings"} :
        TraverseCall(i, direction, MaxLevel, FALSE, FALSE, "id")

GetTopLevelCategories ==
    \E return_as \in {"id", "page"} :
        /\ call' = [op |-> "get_top_level_categories", return_as |-> return_as,
                    ret |-> get_top_level_categories(return_as, allocated + 1)]
        /\ UNCHANGED <<indexVars, pathVars, degree_counts, cache_hidden>>

\* The calls are made in one thread: none starts while a search runs. The
\* search is started on a fresh index, after the insertion of the root or
\* after get_degree_counts.
NoSearch == pc = "idle"
SearchStarts ==
    call.op \in {"none", "insert_artificial_root_node", "get_degree_counts"}

InitFrame == InitIndexTitled(ConcurrentRows, RootTitlings) /\ InitIdle

NextFrame ==
    \/ NoSearch /\ ContainsId
    \/ NoSearch /\ ContainsTitle
    \/ NoSearch /\ GetPageFromId
    \/ NoSearch /\ GetPageFromTitle
    \/ NoSearch /\ GetNeighborsAny
    \/ NoSearch /\ RemoveHiddenIds
    \/ NoSearch /\ TraverseAny
    \/ NoSearch /\ GetTopLevelCategories
    \/ NoSearch /\ GetDegreeCounts
    \/ NoSearch /\ RankIndexed
    \/ NoSearch /\ InsertRoot
    \/ SearchStarts /\ BfsStart
    \/ BfsFound
    \/ BfsExpand
    \/ BfsNoPath
    \/ ExtractChain

SpecFrame == InitFrame /\ [][NextFrame]_vars

\* ------------------------------------------------------ neighbor lists
\* get_parents(id=i, return_as="id") as the first call on the index.
GetParentIds ==
    /\ call = NoCall
    /\ \E i \in Ids, include_hidden \in BOOLEAN :
        GetParentsCall(i, "id", include_hidden, "id")

\* get_children(id=i, return_as="id") as the first call on the index.
GetChildIds ==
    /\ call = NoCall
    /\ \E i \in Ids, include_hidden \in BOOLEAN :
        GetChildrenCall(i, "id", include_hidden, "id")

InitNeighbors == InitIndex /\ InitIdle

NextNeighbors == GetParentIds \/ GetChildIds

SpecNeighbors == InitNeighbors /\ [][NextNeighbors]_vars

\* ------------------------------------------------- path search: claims
\* The ids one parent step (hidden categories removed) leads to.
ParentSet(i) == Range(parent_ids(i, FALSE))

RECURSIVE DistFrom(_, _, _, _)
DistFrom(frontier, seen, t, k) ==
    IF t \in frontier THEN k
    ELSE LET nxt == UNION {ParentSet(i) : i \in frontier} \ seen
         IN  IF nxt = {} THEN -1 ELSE DistFrom(nxt, seen \cup nxt, t, k + 1)

\* Number of parent steps of a shortest path from s to t, -1 when there is none.
Dist(s, t) == DistFrom({s}, {s}, t, 0)

Returned == pc \in {"returned", "done"}

\* c lists a path from s up to t, target first and s left out.
IsParentPath(c, s, t) ==
    IF Len(c) = 0 THEN s = t
    ELSE /\ c[1] = t
         /\ \A i \in 1..(Len(c) - 1) : c[i] \in ParentSet(c[i + 1])
         /\ c[Len(c)] \in ParentSet(s)

\* c starts at t and each element is followed by its backlink, up to s.
FollowsBacklinks(c, bl, s, t) ==
    /\ s \notin Range(c)
    /\ (Len(c) = 0) = (s = t)
    /\ Len(c) > 0 => /\ c[1] = t
                     /\ \A i \in 1..(Len(c) - 1) : c[i + 1] = bl[c[i]]
                     /\ bl[c[Len(c)]] = s

\* C1: called with a separately resolved target page whose id is reachable
\* from the source over non-hidden parents, bfs_with_backlinks returns a
\* backlink map, at the moment the target is dequeued.  Stated for a target
\* at one parent step or more from the source.
C1_ReachableTargetReturnsMap ==
    (Returned /\ ~PageEq(article, target) /\ Dist(article.id, target.id) >= 1)
        => /\ result.kind = "dict"
           /\ result.val = backlinks

\* C2: when the target is reachable, the chain extracted from the search's
\* result is a shortest path, in edge count, from the source to the target.
C2_ChainIsShortestPath ==
    (pc = "done" /\ Dist(article.id, target.id) >= 0)
        => /\ chain.kind = "list"
           /\ Len(chain.val) = Dist(article.id, target.id)
           /\ IsParentPath(chain.val, article.id, target.id)

\* C3: the chain extracted from a backlink map of bfs_with_backlinks starts
\* with the target id, continues with the backlink of each element and
\* stops before the source, whose id is never in it; it is empty when the
\* target id is the source id.  Stated of the map the search returns and of
\* the map it holds at each iteration, for every id discovered so far.
C3_ChainFollowsBacklinks ==
    /\ (pc = "done" /\ result.kind = "dict")
        => /\ chain.kind = "list"
           /\ FollowsBacklinks(chain.val, result.val, article.id, target.id)
    /\ pc = "bfs"
        => \A t \in (DOMAIN backlinks) \cup {article.id} :
            LET c == extract_loop(backlinks, t, article.id, <<>>)
            IN  c.kind = "list" /\ FollowsBacklinks(c.val, backlinks, article.id, t)

C3_Witness ==
    /\ pc = "bfs"
    /\ \E t \in DOMAIN backlinks :
        LET c == extract_loop(backlinks, t, article.id, <<>>)
        IN  c.kind = "list" /\ Len(c.val) = 2 /\ backlinks[c.val[2]] = article.id

C3_WitnessReturned ==
    pc = "done" /\ result.kind = "dict" /\ chain = List(<<>>)

C5_NoPathGivesEmptyChain ==
    /\ (Returned /\ Dist(article.id, target.id) < 0)
        => result = None /\ queue = <<>>
    /\ (pc = "done" /\ result = None) => chain = List(<<>>)

C5_Witness ==
    /\ pc = "done"
    /\ Dist(article.id, target.id) < 0
    /\ backlinks # EmptyDict
    /\ result = None
    /\ chain = List(<<>>)

\* ----------------------------------------------- degree counts: claims
\* Number of entries of an adjacency list that count towards the degree.
Counted(ids, h) == Cardinality({i \in 1..Len(ids) : h \/ ids[i] \notin hidden_categories})

\* Degree of id_ by the definition: parents plus children, hidden ones
\* left out unless h; an id without an adjacency entry has none on that side.
DegreeOf(id_, h) ==
    (IF id_ \in DOMAIN children_to_parents
     THEN Counted(Split(children_to_parents[id_]), h) ELSE 0)
    + (IF id_ \in DOMAIN parents_to_children
       THEN Counted(Split(parents_to_children[id_]), h) ELSE 0)

DegreesFor(h) == [id_ \in DOMAIN id_to_title |-> DegreeOf(id_, h)]

\* A call that computes: use_cache is false or no cache existed.
Computes(c) == c.op = "get_degree_counts" /\ (~c.use_cache \/ ~c.had_cache)

\* A call that asks for the cache when one exists that was computed with the
\* other include_hidden.
AsksOtherSetting(c) ==
    /\ c.op = "get_degree_counts"
    /\ c.use_cache
    /\ c.had_cache
    /\ c.was_hidden = {~c.include_hidden}

\* C6: a get_degree_counts call that computes returns a mapping whose keys
\* are the ids of id_to_title and whose values are the number of parents
\* plus the number of children, hidden categories left out of both unless
\* include_hidden; a side without adjacency entry counts 0.
C6_DegreeIsParentsPlusChildren ==
    Computes(call)
        => /\ call.ret.kind = "dict"
           /\ DOMAIN call.ret.val = DOMAIN id_to_title
           /\ \A id_ \in DOMAIN id_to_title :
                call.ret.val[id_] = DegreeOf(id_, call.include_hidden)

C6_Witness ==
    /\ Computes(call)
    /\ ~call.include_hidden
    /\ \E id_ \in DOMAIN id_to_title :
        /\ id_ \notin DOMAIN children_to_parents
        /\ call.ret.val[id_] = 1
        /\ DegreeOf(id_, TRUE) = 2

\* C7: once the cache was computed with one include_hidden, a call with the
\* other include_hidden and use_cache returns the mapping computed with the
\* former, not one computed for the setting it asks for.
C7_StaleCacheReturned ==
    AsksOtherSetting(call)
        => /\ call.ret = degree_counts
           /\ call.ret = Dict(DegreesFor(~call.include_hidden))
           /\ cache_hidden = {~call.include_hidden}

C7_Witness ==
    /\ AsksOtherSetting(call)
    /\ call.ret = Dict(DegreesFor(~call.include_hidden))
    /\ call.ret # Dict(DegreesFor(call.include_hidden))

\* ----------------------------------------------------- ranking: claims
IsRanking(c) == c.op = "rank_page_ids" /\ c.mode = "degree"

\* Position of ids[i] in the stable ordering by degree: behind the elements
\* of a degree that comes first and behind the earlier elements of its own.
PosOf(ids, counts, asc, i) ==
    Cardinality({j \in 1..Len(ids) :
        IF asc THEN counts[ids[j]] < counts[ids[i]] ELSE counts[ids[j]] > counts[ids[i]]})
    + Cardinality({j \in 1..i : counts[ids[j]] = counts[ids[i]]})

StableOrder(ids, counts, asc) ==
    [k \in 1..Len(ids) |-> ids[CHOOSE i \in 1..Len(ids) : PosOf(ids, counts, asc, i) = k]]

OfDegree(ids, counts, d) == SelectSeq(ids, LAMBDA x : counts[x] = d)

\* C8: rank_page_ids returns the input ids by non-increasing degree, or by
\* non-decreasing degree when ascending; ids of equal degree keep the order
\* they have in the input, in both directions; with max_pages the result is
\* the first max_pages elements of that ordering.
C8_RankIsStableByDegree ==
    IsRanking(call)
        => LET counts == degree_counts.val
               ids == call.ids
               full == StableOrder(ids, counts, call.ascending)
           IN  /\ \A i, j \in 1..Len(full) :
                    i < j => IF call.ascending
                             THEN counts[full[i]] <= counts[full[j]]
                             ELSE counts[full[i]] >= counts[full[j]]
               /\ \A d \in {counts[x] : x \in DOMAIN counts} :
                    OfDegree(full, counts, d) = OfDegree(ids, counts, d)
               /\ call.ret.kind = "list"
               /\ call.ret.val = IF call.max_pages = <<>> THEN full
                                 ELSE SubSeq(full, 1, Min(call.max_pages[1], Len(full)))

C8_Witness ==
    /\ IsRanking(call)
    /\ ~call.ascending
    /\ call.max_pages = <<2>>
    /\ Len(call.ids) = 3
    /\ Len(call.ret.val) = 2
    /\ call.ret.val[1] # call.ret.val[2]
    /\ degree_counts.val[call.ret.val[1]] = degree_counts.val[call.ret.val[2]]
    /\ degree_counts.val[call.ids[1]] < degree_counts.val[call.ret.val[1]]

\* The ascending ranking of the whole list a descending ranking returned.
IsRoundTrip(c) == IsRanking(c) /\ c.reranks /\ c.ascending /\ c.max_pages = <<>>

DistinctDegrees(ids, counts) ==
    \A i, j \in 1..Len(ids) : i # j => counts[ids[i]] # counts[ids[j]]

TiedIds(ids, counts) ==
    \E i, j \in 1..Len(ids) : ids[i] # ids[j] /\ counts[ids[i]] = counts[ids[j]]

NoRepeats(ids) == \A i, j \in 1..Len(ids) : i # j => ids[i] # ids[j]

\* C9 as stated: ranking the result of a descending ranking in ascending
\* order gives the reverse of that result when all degrees differ; when two
\* ids have the same degree it gives not the reverse but the stable
\* ascending sort.
C9_RerankReversesOnlyWithoutTies ==
    IsRoundTrip(call)
        => LET counts == degree_counts.val
               descending == call.ids
           IN  /\ DistinctDegrees(descending, counts)
                    => call.ret = List(Reverse(descending))
               /\ TiedIds(descending, counts)
                    => /\ call.ret # List(Reverse(descending))
                       /\ call.ret = List(StableOrder(descending, counts, TRUE))

\* C9 amended: the ascending re-ranking is always the stable ascending sort
\* of the descending ranking; it is its reverse when all degrees differ, and
\* it is not its reverse when two different ids have the same degree and no
\* id occurs twice in the list.
C9_RerankIsStableAscending ==
    IsRoundTrip(call)
        => LET counts == degree_counts.val
               descending == call.ids
           IN  /\ call.ret = List(StableOrder(descending, counts, TRUE))
               /\ DistinctDegrees(descending, counts)
                    => call.ret = List(Reverse(descending))
               /\ (TiedIds(descending, counts) /\ NoRepeats(descending))
                    => call.ret # List(Reverse(descending))

C9_Witness ==
    /\ IsRoundTrip(call)
    /\ Len(call.ids) = 3
    /\ NoRepeats(call.ids)
    /\ TiedIds(call.ids, degree_counts.val)
    /\ degree_counts.val[call.ids[1]] > degree_counts.val[call.ids[3]]

C9_WitnessDistinct ==
    /\ IsRoundTrip(call)
    /\ Len(call.ids) = 3
    /\ DistinctDegrees(call.ids, degree_counts.val)

\* What ranking ids by the degrees computed with include_hidden gives.
RankedBy(ids, include_hidden, ascending, max_pages) ==
    LET full == StableOrder(ids, DegreesFor(include_hidden), ascending)
    IN  IF max_pages = <<>> THEN full
        ELSE SubSeq(full, 1, Min(max_pages[1], Len(full)))

\* After a ranking the cache holds the degrees of the setting it is marked
\* with, the ranking is by these degrees, and a ranking that found no cache
\* has stored the hidden-exclusive degrees.
RankedByCachedDegrees ==
    IsRanking(call)
        => /\ \E h \in BOOLEAN :
                /\ cache_hidden = {h}
                /\ degree_counts = Dict(DegreesFor(h))
                /\ call.ret = List(RankedBy(call.ids, h, call.ascending, call.max_pages))
           /\ ~call.had_cache => cache_hidden = {FALSE}

\* A ranking leaves a cache that exists as it is.
RankKeepsCache ==
    (IsRanking(call') /\ call' # call /\ degree_counts # NoAttr)
        => UNCHANGED <<degree_counts, cache_hidden>>

\* C24: rank_page_ids takes its degrees from get_degree_counts(): a cache
\* computed with include_hidden = True makes it rank by the hidden-inclusive
\* degrees, without a cache it computes and stores the hidden-exclusive
\* degrees, and it never recomputes a cache that exists.
C24_RankUsesCacheAsIs ==
    /\ []RankedByCachedDegrees
    /\ [][RankKeepsCache]_vars

\* A ranking by the hidden-inclusive degrees of an earlier
\* get_degree_counts(include_hidden=True), which differs from the ranking the
\* hidden-exclusive degrees give.
C24_Witness ==
    /\ IsRanking(call)
    /\ call.had_cache
    /\ cache_hidden = {TRUE}
    /\ call.ret = List(RankedBy(call.ids, TRUE, call.ascending, call.max_pages))
    /\ call.ret # List(RankedBy(call.ids, FALSE, call.ascending, call.max_pages))

\* A ranking that found no cache and stored the hidden-exclusive degrees.
C24_WitnessFirstUse ==
    /\ IsRanking(call)
    /\ ~call.had_cache
    /\ degree_counts = Dict(DegreesFor(FALSE))
    /\ degree_counts # Dict(DegreesFor(TRUE))

\* --------------------------------------------------- traversal: claims
\* A returned list by value: a Page by its id, title and namespace.
Values(ret, return_as) ==
    IF ret.kind = "list" /\ return_as = "page"
    THEN List([i \in 1..Len(ret.val) |->
                [id |-> ret.val[i].id, title |-> ret.val[i].title,
                 namespace |-> ret.val[i].namespace]])
    ELSE ret

\* s without the entries that repeat an earlier one.
RECURSIVE FirstOccurrences(_)
FirstOccurrences(s) ==
    IF s = <<>> THEN <<>>
    ELSE LET front == SubSeq(s, 1, Len(s) - 1)
         IN  IF s[Len(s)] \in Range(front) THEN FirstOccurrences(front)
             ELSE Append(FirstOccurrences(front), s[Len(s)])

IsLevelOneParents ==
    /\ call.op = "traverse"
    /\ call.direction = "parents"
    /\ call.level = 1
    /\ call.flatten

\* What get_parents returns, by value, for the arguments of the traverse call.
ParentsOfCall ==
    Values(get_parents(<<call.page>>, <<>>, <<>>, call.include_hidden,
                       call.return_as, <<>>, allocated + 1),
           call.return_as)

\* C10 as stated: traverse(page, "parents", level=1, flatten=true,
\* include_hidden, return_as) returns exactly what get_parents(page,
\* include_hidden, return_as) returns, on every index.
C10_LevelOneEqualsGetParents ==
    IsLevelOneParents => Values(call.ret, call.return_as) = ParentsOfCall

\* C10 amended: traverse(page, "parents", level=1, flatten=true,
\* include_hidden, return_as) returns what get_parents(page, include_hidden,
\* return_as) returns with every entry that repeats an earlier one removed;
\* the two are equal when get_parents returns no entry twice.
C10_LevelOneIsGetParentsOnce ==
    IsLevelOneParents
        => /\ Values(call.ret, call.return_as)
                = List(FirstOccurrences(ParentsOfCall.val))
           /\ NoRepeats(ParentsOfCall.val)
                => Values(call.ret, call.return_as) = ParentsOfCall

C10_Witness ==
    /\ IsLevelOneParents
    /\ call.return_as = "page"
    /\ ~call.include_hidden
    /\ Len(ParentsOfCall.val) = 2
    /\ Len(call.ret.val) = 1

C10_WitnessNoRepeat ==
    /\ IsLevelOneParents
    /\ call.return_as = "title"
    /\ Len(ParentsOfCall.val) = 2
    /\ Len(call.ret.val) = 2

RECURSIVE Concat(_)
Concat(lists) == IF lists = <<>> THEN <<>> ELSE Head(lists) \o Concat(Tail(lists))

\* The id an entry of a returned list stands for.
IdOfEntry(entry, return_as) ==
    IF return_as = "id" THEN entry
    ELSE IF return_as = "title"
    THEN CHOOSE i \in DOMAIN id_to_title : id_to_title[i] = entry
    ELSE entry.id

\* The ids of the output of the traverse call, in output order.
EmittedIds ==
    LET flat == IF call.flatten THEN call.ret.val ELSE Concat(call.ret.val)
    IN  [i \in 1..Len(flat) |-> IdOfEntry(flat[i], call.return_as)]

IsTraversal == call.op = "traverse" /\ call.ret.kind = "list"

\* C11: in every traverse call no id occurs twice in the output, and the
\* neighbors of an id are fetched when it is emitted and never again: the
\* ids whose neighbors were fetched are the emitted ids, once each.
C11_VisitedOnce ==
    IsTraversal
        => /\ NoRepeats(EmittedIds)
           /\ NoRepeats(call.fetched)
           /\ call.fetched = EmittedIds

\* A two-level traversal whose second frontier holds an id emitted at the
\* first level.
C11_Witness ==
    /\ IsTraversal
    /\ call.level >= 2
    /\ ~call.flatten
    /\ call.direction = "parents"
    /\ Len(call.ret.val[1]) >= 1
    /\ \E i \in 1..Len(call.ret.val[1]) :
          LET x == IdOfEntry(call.ret.val[1][i], call.return_as)
          IN  Range(parent_ids(x, call.include_hidden))
                \cap {IdOfEntry(call.ret.val[1][j], call.return_as) :
                        j \in 1..Len(call.ret.val[1])} # {}

\* What the call would have returned with flatten = True.
Flattened ==
    traverse(call.page, call.direction, call.level, TRUE, call.include_hidden,
             call.return_as, 0)

IdsOfEntries(entries, return_as) ==
    [i \in 1..Len(entries) |-> IdOfEntry(entries[i], return_as)]

\* C22: a traverse call with flatten = False returns level lists (none for
\* level <= 0), and these lists joined in order name the pages, in the same
\* order, that the call with flatten = True returns; as ids and as titles
\* the joined lists are that very list.
C22_LevelsConcatToFlat ==
    (IsTraversal /\ ~call.flatten)
        => /\ Len(call.ret.val) = (IF call.level > 0 THEN call.level ELSE 0)
           /\ Flattened.kind = "list"
           /\ IdsOfEntries(Concat(call.ret.val), call.return_as)
                = IdsOfEntries(Flattened.val, call.return_as)
           /\ call.return_as # "page" => Concat(call.ret.val) = Flattened.val

\* Two levels asked for, the first with pages and the second empty.
C22_Witness ==
    /\ IsTraversal
    /\ ~call.flatten
    /\ call.level = 2
    /\ Len(call.ret.val) = 2
    /\ call.ret.val[1] # <<>>
    /\ call.ret.val[2] = <<>>

\* Two levels, both with pages.
C22_WitnessFull ==
    /\ IsTraversal
    /\ ~call.flatten
    /\ call.level = 2
    /\ call.ret.val[1] # <<>>
    /\ call.ret.val[2] # <<>>

\* No level asked for.
C22_WitnessNoLevel ==
    /\ IsTraversal
    /\ ~call.flatten
    /\ call.level <= 0
    /\ call.ret.val = <<>>

\* The neighbors of an id in the direction and under the filter of the call.
NeighborSet(x) ==
    Range(get_neighbors(call.direction, <<>>, <<x>>, call.include_hidden, "id", 0).val)

\* The ids a walk of exactly k >= 1 steps from the start page ends at.
RECURSIVE WalkEnds(_)
WalkEnds(k) ==
    IF k <= 1 THEN NeighborSet(call.page.id)
    ELSE UNION {NeighborSet(y) : y \in WalkEnds(k - 1)}

\* The ids whose shortest walk from the start page has k steps; for the
\* start page itself that is the length of its shortest cycle.
AtDistance(k) == WalkEnds(k) \ UNION {WalkEnds(j) : j \in 1..(k - 1)}

\* C29: the k-th list of a traverse call with flatten = False holds, once
\* each, the ids at shortest distance k from the start page in the direction
\* of the call over the filtered neighbor lists; the id of the start page is
\* among them when its shortest cycle has length k.
C29_LevelIsDistance ==
    (IsTraversal /\ ~call.flatten)
        => \A k \in 1..Len(call.ret.val) :
              LET ids == IdsOfEntries(call.ret.val[k], call.return_as)
              IN  /\ NoRepeats(ids)
                  /\ Range(ids) = AtDistance(k)

\* The start page lies on a cycle of length 2 and is emitted at level 2.
C29_Witness ==
    /\ IsTraversal
    /\ ~call.flatten
    /\ call.level = 2
    /\ call.page.id \in Range(IdsOfEntries(call.ret.val[2], call.return_as))
    /\ call.page.id \notin Range(IdsOfEntries(call.ret.val[1], call.return_as))

\* An id reached at level 1 and again from level 1 is left out of level 2.
C29_WitnessShortest ==
    /\ IsTraversal
    /\ ~call.flatten
    /\ call.level = 2
    /\ \E x \in Range(IdsOfEntries(call.ret.val[1], call.return_as)) :
          /\ x # call.page.id
          /\ x \in WalkEnds(2)

\* ------------------------------------------------ neighbor lists: claims
\* The entries of s that are not in hidden_categories, each as often and in
\* the order it occurs in s.
RECURSIVE VisibleIn(_)
VisibleIn(s) ==
    IF s = <<>> THEN <<>>
    ELSE LET front == VisibleIn(SubSeq(s, 1, Len(s) - 1))
         IN  IF s[Len(s)] \in hidden_categories THEN front
             ELSE Append(front, s[Len(s)])

IsNeighborIds ==
    /\ call.op \in {"get_parents", "get_children"}
    /\ call.return_as = "id"
    /\ call.ret.kind = "list"

\* What the call returns when made with include_hidden = True.
WithHidden ==
    IF call.op = "get_parents"
    THEN get_parents(<<>>, <<call.page.id>>, <<>>, TRUE, "id", <<>>, allocated + 1).val
    ELSE get_children(<<>>, <<call.page.id>>, <<>>, TRUE, "id", allocated + 1).val

\* C12: get_parents(p, include_hidden=false) is remove_hidden_ids of
\* get_parents(p, include_hidden=true), and remove_hidden_ids gives the
\* entries of its input that are not in hidden_categories, in input order,
\* repeated ids kept; likewise for get_children.
C12_HiddenFilterIsSubsequence ==
    (IsNeighborIds /\ ~call.include_hidden)
        => /\ call.ret.val = remove_hidden_ids(WithHidden)
           /\ remove_hidden_ids(WithHidden) = VisibleIn(WithHidden)

\* A filtered list that lost a hidden id and kept a visible one.
C12_Witness ==
    /\ IsNeighborIds
    /\ ~call.include_hidden
    /\ call.op = "get_parents"
    /\ Len(call.ret.val) >= 1
    /\ Len(call.ret.val) < Len(WithHidden)

\* A filtered child list that keeps a repeated id.
C12_WitnessChildren ==
    /\ IsNeighborIds
    /\ ~call.include_hidden
    /\ call.op = "get_children"
    /\ Len(call.ret.val) = 2
    /\ call.ret.val[1] = call.ret.val[2]
    /\ hidden_categories # {}

\* The adjacency map the call reads.
MapOfCall ==
    IF call.op = "get_parents" THEN children_to_parents ELSE parents_to_children

IsFetchById ==
    /\ call.op \in {"get_parents", "get_children"}
    /\ call.by = "id"
    /\ call.return_as = "id"

\* C13: get_parents of an id with no key in children_to_parents, and
\* get_children of an id with no key in parents_to_children, return the
\* empty list and no error, with return_as = "id" and either include_hidden.
C13_MissingKeyGivesEmpty ==
    (IsFetchById /\ call.page.id \notin DOMAIN MapOfCall)
        => call.ret = List(<<>>)

\* Parents asked of an id that has children and no parent entry.
C13_Witness ==
    /\ IsFetchById
    /\ call.op = "get_parents"
    /\ call.include_hidden
    /\ call.page.id \notin DOMAIN children_to_parents
    /\ call.page.id \in DOMAIN parents_to_children
    /\ Len(Split(parents_to_children[call.page.id])) >= 2
    /\ call.ret = List(<<>>)

\* Children asked of an id that has parents and no child entry.
C13_WitnessChildren ==
    /\ IsFetchById
    /\ call.op = "get_children"
    /\ ~call.include_hidden
    /\ call.page.id \notin DOMAIN parents_to_children
    /\ call.page.id \in DOMAIN children_to_parents
    /\ call.ret = List(<<>>)

\* ---------------------------------------------------- selectors: claims
IsNeighborCall == call.op \in {"get_parents", "get_children"}

\* The list the call returns for the page of id i, by value.
NeighborsOf(i) ==
    Values(autoconvert_list_of_ids(
               IF call.op = "get_parents" THEN parent_ids(i, call.include_hidden)
               ELSE child_ids(i, call.include_hidden),
               call.return_as, allocated + 1),
           call.return_as)

\* The namespaces get_parents and get_children look a title up in, when the
\* caller names none: get_children always asks for a category.
TitleKnown(title) ==
    IF call.op = "get_children" THEN title \in DOMAIN title_to_id[CATEGORY]
    ELSE title \in DOMAIN title_to_id[ARTICLE] \cup DOMAIN title_to_id[CATEGORY]

\* C14: get_parents and get_children raise ValueError when none or more than
\* one of page, id, title is given; given exactly one they answer for the id
\* of the page, for the id, or for the id the title is listed under (a title
\* not listed in the namespace looked at is a ValueError of the lookup).
C14_ExactlyOneSelector ==
    IsNeighborCall
        => /\ call.by \in MiscountedSelectors => call.ret = Raise("ValueError")
           /\ call.by \in {"page", "id"}
                => Values(call.ret, call.return_as) = NeighborsOf(call.page.id)
           /\ (call.by = "title" /\ TitleKnown(call.page.title))
                => Values(call.ret, call.return_as) = NeighborsOf(call.page.id)
           /\ (call.by = "title" /\ ~TitleKnown(call.page.title))
                => call.ret.kind = "ValueError"

\* A call with both page and id, for a page that has a parent.
C14_Witness ==
    /\ call.op = "get_parents"
    /\ call.by = "page+id"
    /\ Len(parent_ids(call.page.id, FALSE)) >= 1
    /\ call.ret = Raise("ValueError")

C14_WitnessNone ==
    /\ call.op = "get_children"
    /\ call.by = "none"
    /\ call.ret = Raise("ValueError")

C14_WitnessOne ==
    /\ call.op = "get_children"
    /\ call.by = "title"
    /\ call.ret.kind = "list"
    /\ Len(call.ret.val) = 2

\* -------------------------------------------------- title lookup: claims
InArticles(t) == t \in DOMAIN title_to_id[ARTICLE]
InCategories(t) == t \in DOMAIN title_to_id[CATEGORY]

\* The parents of the page of id i, as the call returns them, by value.
ParentsAsReturned(i) ==
    Values(autoconvert_list_of_ids(parent_ids(i, call.include_hidden),
                                   call.return_as, allocated + 1),
           call.return_as)

IsParentsByTitle == call.op = "get_parents" /\ call.by = "title"

\* get_parents(title=t) answers for the article titled t if there is one,
\* else for the category titled t.
ArticleNamespaceFirst ==
    IsParentsByTitle
        => /\ InArticles(call.title)
                => Values(call.ret, call.return_as)
                     = ParentsAsReturned(title_to_id[ARTICLE][call.title])
           /\ (~InArticles(call.title) /\ InCategories(call.title))
                => Values(call.ret, call.return_as)
                     = ParentsAsReturned(title_to_id[CATEGORY][call.title])

\* C15: get_parents(title=t) with no namespace answers for the article
\* titled t if there is one (also when a category has the same title),
\* else for the category titled t; when no page is titled t the call fails
\* with the error of a title that is not found.
C15_TitleResolvesArticleFirst ==
    /\ ArticleNamespaceFirst
    /\ (IsParentsByTitle /\ ~InArticles(call.title) /\ ~InCategories(call.title))
            => call.ret = RaiseMsg("ValueError", "Title not found in graph")

\* -------------------------------------------------- construction: claims
Constructed == call.op = "__init__"

Built == id_to_title # NoAttr

\* The snapshot lacks a required key or the title Hidden_categories.
LacksRequired(graph_json) ==
    \/ RequiredKeys \ DOMAIN graph_json # {}
    \/ HiddenTitle \notin DOMAIN graph_json.title_to_id[CATEGORY]

\* The ids the snapshot lists under the category titled Hidden_categories.
HiddenChildren(graph_json) ==
    LET hidden_id == graph_json.title_to_id[CATEGORY][HiddenTitle]
    IN  {rc \in Ids :
            /\ hidden_id \in DOMAIN graph_json.parents_to_children
            /\ \E k \in 1..Len(graph_json.parents_to_children[hidden_id]) :
                  graph_json.parents_to_children[hidden_id][k] = rc}

\* C16: construction fails and leaves no index when one of the five
\* top-level keys is missing or no category is titled Hidden_categories;
\* on every other snapshot it succeeds and hidden_categories is the set of
\* children of Hidden_categories.
C16_ConstructionFailsOnlyOnMissing ==
    Constructed
        => IF LacksRequired(call.graph_json)
           THEN call.ret # None /\ ~Built
           ELSE /\ call.ret = None
                /\ Built
                /\ hidden_categories = HiddenChildren(call.graph_json)

\* The part of C16 the constructor satisfies: it fails on a snapshot that
\* lacks a key or the title, and when it succeeds hidden_categories is the
\* set of children of Hidden_categories.
ConstructionWhenListed ==
    Constructed
        => /\ LacksRequired(call.graph_json) => (call.ret # None /\ ~Built)
           /\ call.ret = None
                => /\ Built
                   /\ hidden_categories = HiddenChildren(call.graph_json)

\* ------------------------------------------------------ encoding: claims
\* The ids of an adjacency value in either encoding.
IdsOfValue(value) == IF IsStr(value) THEN Split(value) ELSE Tail(value)

\* C17: a snapshot whose adjacency values are lists of ids is accepted like
\* the snapshot with whitespace-separated strings: construction succeeds
\* and hidden_categories holds the ids listed under Hidden_categories.
C17_ListEncodingAccepted ==
    (Constructed /\ call.encoding = "list")
        => /\ call.ret = None
           /\ Built
           /\ hidden_categories
                = Range(IdsOfValue(call.graph_json.parents_to_children[HiddenId]))

\* Construction from the encoding generate_graph writes succeeds.
StrEncodingAccepted ==
    (Constructed /\ call.encoding = "str")
        => /\ call.ret = None
           /\ Built
           /\ hidden_categories
                = Range(IdsOfValue(call.graph_json.parents_to_children[HiddenId]))

\* ------------------------------------------------- synthetic root: claims
\* The ids of the configured top-level categories, in configured order.
TopLevelIds ==
    LET listed == SelectSeq(TOP_LEVEL_CATEGORIES,
                            LAMBDA t : t \in DOMAIN title_to_id[CATEGORY])
    IN  [k \in 1..Len(listed) |-> title_to_id[CATEGORY][listed[k]]]

\* The call asks for the neighbors of the inserted root.
AsksRoot(op) == call.op = op /\ call.page.id \in Roots

\* C18 as stated: after the insertion of a root under an unused id,
\* get_children of the root returns the ids of all top-level categories,
\* get_parents of the root returns the empty list, and the root resolves to
\* a category page whose title is the root id.
C18_RootHasAllTopLevelChildren ==
    /\ AsksRoot("get_children")
            => call.ret.kind = "list" /\ Range(call.ret.val) = Range(TopLevelIds)
    /\ AsksRoot("get_parents") => call.ret = List(<<>>)
    /\ call.op = "get_page_from_id"
            => /\ call.ret.id = call.id
               /\ call.ret.namespace = "category"
               /\ call.ret.title = RootText(call.id)

\* C18 amended: get_children of the root with include_hidden = True returns
\* the ids of all top-level categories, in configured order; with
\* include_hidden = False it returns those of them that are not in
\* hidden_categories; get_parents of the root returns the empty list; the
\* root resolves to a category page whose title is the standardized root id,
\* which is the root id when that holds no space.
C18_RootHasVisibleTopLevelChildren ==
    /\ AsksRoot("get_children")
            => call.ret = List(IF call.include_hidden THEN TopLevelIds
                               ELSE VisibleIn(TopLevelIds))
    /\ AsksRoot("get_parents") => call.ret = List(<<>>)
    /\ call.op = "get_page_from_id"
            => /\ call.ret.id = call.id
               /\ call.ret.namespace = "category"
               /\ call.ret.title = standardize(RootText(call.id))
               /\ (\A k \in 1..Len(RootText(call.id)) : RootText(call.id)[k] # " ")
                    => call.ret.title = RootText(call.id)

\* The children of the root asked with hidden categories removed, one
\* top-level category being hidden.
C18_Witness ==
    /\ AsksRoot("get_children")
    /\ ~call.include_hidden
    /\ call.by = "page"
    /\ Len(call.ret.val) = 1

C18_WitnessAll ==
    /\ AsksRoot("get_children")
    /\ call.include_hidden
    /\ Len(TopLevelIds) = Len(TOP_LEVEL_CATEGORIES)
    /\ hidden_categories # {}
    /\ Len(call.ret.val) = 2

C18_WitnessPage ==
    /\ call.op = "get_page_from_id"
    /\ call.ret.title # RootText(call.id)

\* The ids the two adjacency maps list for a page.
ParentsListed(c) == Range(Split(DictGet(children_to_parents, c, <<>>)))
ChildrenListed(p) == Range(Split(DictGet(parents_to_children, p, <<>>)))

KnownIds == DOMAIN id_to_title \cup DOMAIN children_to_parents \cup DOMAIN parents_to_children

\* Every edge is in both maps: p is listed as a parent of c exactly when c
\* is listed as a child of p.
Consistent ==
    \A c, p \in KnownIds : p \in ParentsListed(c) <=> c \in ChildrenListed(p)

\* C19: the two adjacency maps of a generated snapshot list the same edges,
\* and they still do in every state reached by queries, by the population
\* of the degree cache and by the insertion of the synthetic root.
C19_AdjacencyMapsConsistent == Consistent

\* The maps list the same edges as long as the root has no entry in them.
ConsistentWithoutRoot ==
    (RootIds \cap DOMAIN parents_to_children = {}) => Consistent

\* ------------------------------------------------- invalid input: claims
Exceptions == {"ValueError", "KeyError", "AttributeError", "TypeError"}

\* The call just made raised.
Failed == call.op # "none" /\ call.ret.kind \in Exceptions

\* C20 as stated: a query call that fails on invalid input leaves the maps
\* of the index, hidden_categories and the degree cache as they were.
C20_FailedCallChangesNothing ==
    [][Failed' => UNCHANGED <<indexVars, degree_counts>>]_vars

\* C20 amended: a query call that fails on invalid input leaves the maps of
\* the index and hidden_categories as they were; it leaves the degree cache
\* as it was unless it is a rank_page_ids call in mode "degree" made when
\* nothing is cached, which fails after it has stored the degree counts
\* computed with include_hidden = False.
C20_FailedCallKeepsIndex ==
    [][Failed'
        => /\ UNCHANGED indexVars
           /\ degree_counts' # degree_counts
                => /\ call'.op = "rank_page_ids"
                   /\ call'.mode = "degree"
                   /\ degree_counts = NoAttr
                   /\ degree_counts' = Dict(compute_degree_counts(FALSE))]_vars

\* A rank_page_ids call that raised after it filled the empty cache.
C20_Witness ==
    /\ Failed
    /\ call.op = "rank_page_ids"
    /\ ~call.had_cache
    /\ degree_counts # NoAttr
    /\ \E i \in Ids : degree_counts.val[i] > 0

\* A failed call in an unsupported mode, the cache still empty.
C20_WitnessBadMode ==
    /\ Failed
    /\ call.op = "rank_page_ids"
    /\ call.mode = "pagerank"
    /\ degree_counts = NoAttr

\* --------------------------------------------- concurrent callers: claims
\* The ids of the index the dict handed to caller w had no entry for.
LackedBy(w) == DOMAIN id_to_title \ DOMAIN workers[w].handed[1].val

\* C21: a caller of get_degree_counts or rank_page_ids is handed a dict that
\* lacks ids of id_to_title only while another caller is between the
\* statement that publishes the empty dict and the end of its loop, and the
\* ids it lacks are ids that caller has not stored yet; rank_page_ids fails
\* with KeyError on an id of the index only on a dict handed that way.
C21_PartialMapOnlyWhileOtherFills ==
    \A w \in Workers :
        workers[w].handed # <<>>
            => /\ LackedBy(w) \subseteq workers[w].handed[1].unfilled
               /\ (workers[w].op = "rank_page_ids" /\ workers[w].ret.kind = "KeyError")
                    => workers[w].handed[1].unfilled # {}

\* A get_degree_counts(use_cache=True) that found the attribute set and was
\* handed a dict lacking an id of the index.
C21_Witness ==
    \E w \in Workers :
        /\ workers[w].op = "get_degree_counts"
        /\ workers[w].use_cache
        /\ workers[w].pc = "done"
        /\ LackedBy(w) # {}

\* A rank_page_ids on ids of the index that raised KeyError.
C21_WitnessRank ==
    \E w \in Workers :
        /\ workers[w].op = "rank_page_ids"
        /\ workers[w].pc = "done"
        /\ workers[w].ret.kind = "KeyError"

\* ---------------------------------------------- path search: termination
\* The pages one iteration of the search has appended to the queue.
Enqueued == SubSeq(queue', Len(queue), Len(queue'))

\* One iteration: no backlink is changed or removed, and the pages appended
\* to the queue are the ids that were given a backlink, once each.
BfsStepEnqueuesNewOnly ==
    (pc = "bfs" /\ pc' = "bfs")
        => /\ \A id \in DOMAIN backlinks :
                id \in DOMAIN backlinks' /\ backlinks'[id] = backlinks[id]
           /\ NoRepeats([i \in 1..Len(Enqueued) |-> Enqueued[i].id])
           /\ {Enqueued[i].id : i \in 1..Len(Enqueued)}
                = DOMAIN backlinks' \ DOMAIN backlinks

\* C23: bfs_with_backlinks returns on every graph, cycles and cycles through
\* the source included: an iteration never changes a backlink that is set,
\* it enqueues exactly the pages it gives a backlink to, so that no page but
\* the source is enqueued twice, and the search that has started returns.
C23_SearchTerminates ==
    /\ [][BfsStepEnqueuesNewOnly]_vars
    /\ (pc = "bfs") ~> (pc = "returned")

\* A search that returned on a graph with a cycle through the source: the
\* source was found again as a parent and given a backlink.
C23_Witness ==
    /\ pc = "returned"
    /\ article.id \in DOMAIN backlinks
    /\ article.id # target.id

\* A search that returned on a graph with a cycle away from the source.
C23_WitnessCycle ==
    /\ pc = "returned"
    /\ article.id \notin DOMAIN backlinks
    /\ \E x \in DOMAIN backlinks : \E y \in DOMAIN backlinks :
          /\ x # y
          /\ x \in Range(parent_ids(y, FALSE))
          /\ y \in Range(parent_ids(x, FALSE))

\* ------------------------------------------- synthetic root: failed insert
\* C27: when insert_artificial_root_node fails because a configured
\* top-level title is missing, the index has no entry for root_id: not in
\* id_to_title, id_to_namespace, title_to_id or either adjacency map.
C27_FailedInsertLeavesNoRoot ==
    (call.op = "insert_artificial_root_node" /\ call.ret.kind = "ValueError")
        => /\ call.root_id \notin DOMAIN id_to_title
           /\ call.root_id \notin DOMAIN id_to_namespace
           /\ RootText(call.root_id) \notin DOMAIN title_to_id[CATEGORY]
           /\ call.root_id \notin DOMAIN parents_to_children
           /\ call.root_id \notin DOMAIN children_to_parents

\* ------------------------------------------------ life of the cache: claims
IsDegreeCounts(c) == c.op = "get_degree_counts"

\* A step that changes the cache is a get_degree_counts call with
\* use_cache = False, or the get_degree_counts call of a caller or of
\* rank_page_ids when no cache exists; it stores the degrees computed for the
\* include_hidden of the call.
CacheChangedOnlyByRecompute ==
    (degree_counts' # degree_counts \/ cache_hidden' # cache_hidden)
        => /\ call'.op \in {"get_degree_counts", "rank_page_ids"}
           /\ degree_counts = NoAttr \/ (IsDegreeCounts(call') /\ ~call'.use_cache)
           /\ LET h == IF IsDegreeCounts(call') THEN call'.include_hidden ELSE FALSE
              IN  /\ degree_counts' = Dict(DegreesFor(h))
                  /\ cache_hidden' = {h}

\* A get_degree_counts call with use_cache = True on an index with a cache
\* returns the cache and leaves it as it is.
CachedCallReturnsCache ==
    (IsDegreeCounts(call') /\ call' # call /\ call'.use_cache /\ degree_counts # NoAttr)
        => /\ call'.ret = degree_counts
           /\ degree_counts' = degree_counts

\* A get_degree_counts call with use_cache = False stores what it computes.
RecomputeStores ==
    (IsDegreeCounts(call') /\ call' # call /\ ~call'.use_cache)
        => /\ degree_counts' = Dict(DegreesFor(call'.include_hidden))
           /\ call'.ret = degree_counts'

\* C25: the cache is created by the first get_degree_counts call (a caller's
\* or the one rank_page_ids makes) and replaced only by a call with
\* use_cache = False, which stores the degrees for its include_hidden; calls
\* with use_cache = True return the stored mapping; no other operation,
\* insert_artificial_root_node included, changes the cache.
C25_CacheReplacedOnlyOnRecompute ==
    [][CacheChangedOnlyByRecompute /\ CachedCallReturnsCache /\ RecomputeStores]_vars

\* A use_cache = True call that returned the mapping a use_cache = False call
\* had stored in place of an earlier cache of the other setting.
C25_Witness ==
    /\ IsDegreeCounts(call)
    /\ call.use_cache
    /\ call.had_cache
    /\ call.was_hidden = {~call.include_hidden}
    /\ call.ret = Dict(DegreesFor(~call.include_hidden))
    /\ call.ret # Dict(DegreesFor(call.include_hidden))

\* A cache that an insertion of the root has left as it was.
C25_WitnessInsert ==
    /\ Inserted
    /\ degree_counts # NoAttr
    /\ call.root_id \notin DOMAIN degree_counts.val

\* C26: whenever the cache exists its keys are the keys of id_to_title, and
\* a rank_page_ids on ids of the index does not fail with KeyError.
C26_CacheCoversIndex ==
    /\ degree_counts # NoAttr => DOMAIN degree_counts.val = DOMAIN id_to_title
    /\ (call.op = "rank_page_ids" /\ Range(call.ids) \subseteq DOMAIN id_to_title)
            => call.ret.kind # "KeyError"

\* ------------------------------------------------------- viewer: claims
\* C28: from the moment build_app has made it, the selected-nodes store
\* holds the id of the root, after any sequence of taps, switch moves, ticks,
\* updates, resets and path computations; the root is never an option of a
\* checklist.
C28_StoreHoldsRoot ==
    AppBuilt
        => /\ root_id \in selected_nodes
           /\ root_id \notin Range(checklists.options_children)
           /\ root_id \notin Range(checklists.options_parents)

\* An update has discarded an unticked option from a store that held it, and
\* the root is still there.
C28_Witness ==
    /\ AppBuilt
    /\ root_id \in selected_nodes
    /\ \E o \in Range(checklists.options_children \o checklists.options_parents) :
          o \notin selected_nodes
    /\ \E x \in selected_nodes : x # root_id
    /\ clicked_data # None
    /\ clicked_data.id \notin selected_nodes

\* ------------------------------------------------ every operation: claims
Mutators == {"get_degree_counts", "rank_page_ids", "insert_artificial_root_node"}

\* C30: a step of contains_id, contains_title, get_page_from_id,
\* get_page_from_title, get_parents, get_children, remove_hidden_ids,
\* traverse, get_top_level_categories, bfs_with_backlinks or extract_chain,
\* returning or raising, leaves the maps of the index, hidden_categories and
\* the degree cache as they are: a step that changes one of them is a call of
\* get_degree_counts, rank_page_ids or insert_artificial_root_node.
C30_OnlyMutatorsChangeIndex ==
    [][\/ UNCHANGED <<indexVars, degree_counts, cache_hidden>>
       \/ call' # call /\ call'.op \in Mutators]_vars

\* A read-only call that raised on an index with a root and a cache.
C30_Witness ==
    /\ call.op \in {"get_parents", "get_children", "traverse", "contains_title"}
    /\ call.ret.kind \in Exceptions
    /\ degree_counts # NoAttr
    /\ Roots # {}

\* A search that ended on an index with a root and a cache.
C30_WitnessSearch ==
    /\ pc = "done"
    /\ degree_counts # NoAttr
    /\ Roots # {}

====
